---------------------------- MODULE Spec2Model ----------------------------
(***************************************************************************)
(* A model of DigTool (src/main.py): the frame loop run_main_loop with its *)
(* zone tracking / colour lock, click scheduler and auto-walk state        *)
(* machine, the click tasks it starts and the start/stop toggle of the GUI *)
(* thread.                                                                 *)
(*                                                                         *)
(* Units.  Times are integer milliseconds (current_time_ms).  Zone         *)
(* positions and widths are integer centipixels (1/100 px), a fixed-point  *)
(* rendering of the floats of the smoother.  Sweet-spot coordinates are    *)
(* centipixels scaled by 200 so that center = x + w/2 and                  *)
(* start = center - w*pct/200 are integers.  Confidences are per mille.    *)
(* A predictive delay is kept in microseconds.                             *)
(***************************************************************************)
EXTENDS Integers, Sequences, FiniteSets, TLC

(***************************************************************************)
(* Program constants                                                       *)
(***************************************************************************)
None == -1
max_wait_time == 5000
post_dig_delay == 2000
max_click_retries == 2
max_click_threads == 3
startup_grace_period == 100
settle_time == 300
disengage_time == 1500
auto_sell_max_wait_time == 30000
latency_cache_ttl == 300000
measurement_ttl == 30000
default_latency == 50
base_line_movement_check_frames == 30
min_movement_threshold == 50
min_history_length == 10
min_valid_positions == 5
pending_timeout == 10000
low_sat_limit == 25
zone_timeout_min == 5

NoColor == << >>

(***************************************************************************)
(* Bounds of the model and the configuration values it is run with         *)
(***************************************************************************)
Tick == 1500
MaxTicks == 5
MaxRetryTicks == 18
RetryStride == 4
MaxDecideTicks == 2
MaxNoZoneFrames == 13
MaxDelayedClicks == 2
MaxSmoothSteps == 3
SellHorizon == 33
MaxSellTicks == 6
MaxStopTicks == 3
Epoch == 1000000
LatencyStride == 20000
ShortHorizon == 45000
LongStride == 290000
LatencyHorizon == 700000
MaxEngageFrames == 14
MaxTurns == 2
LongStep == 700
StepStride == 250
StepHorizon == 3500
MaxBurstTicks == 9
MaxGuardTicks == 9
MaxCloseTicks == 7
MaxScanFrames == 12
StallStride == 7
MaxStallTicks == 13
post_click_blindness == 2000
walk_duration == 200
frame_width == 400
sell_every_x_digs == 2

Max(a, b) == IF a >= b THEN a ELSE b
Min(a, b) == IF a <= b THEN a ELSE b
Abs(a) == IF a >= 0 THEN a ELSE -a

VARIABLES
    \* wall clock (ms) and configuration read by the loop
    clock, game_fps, auto_walk_enabled, auto_sell_on,
    \* DigTool attributes
    running, startup_time, click_lock, blind_until, dig_count,
    frames_since_last_zone_detection, smoothed_zone_x, smoothed_zone_w,
    is_color_locked, locked_color_hsv, locked_color_hex, is_low_sat_lock,
    target_engaged, is_selling,
    \* locals of run_main_loop that live across iterations
    auto_walk_state, move_completed_time, wait_for_target_start,
    current_step_click_enabled, dig_completed_time, target_disengaged_time,
    pending_auto_sell, click_retry_count, click_delay, walk_alive,
    \* tasks in flight
    delayed_clicks, instant_clicks,
    \* observers: what the last iteration did, and histories the claims need
    frame_log, last_sched_click, diseng_since, expiries, retry_clicks,
    misses, lock_seen, dec_in, dec_out,
    \* observer of the last smoothing step
    smooth_log,
    \* the loop thread: alive, waiting for a sell it started (and since when)
    loop_alive, loop_wait, wait_start_time,
    \* the single-slot channel to the GUI (number of results it holds)
    results_queue,
    \* the sell thread and the walk thread's progress
    sell_thread, walk_moving, walk_log,
    \* the latency cache (_cached_latency, _latency_measurement_time,
    \* _measured_latency) and the observer of its last use
    latency_cache, latency_log,
    \* the dig count of the last milestone notification
    last_milestone_notification,
    \* shutdown: the flag both thread loops test, the hotkey listener thread,
    \* and how far on_closing and _check_shutdown have come
    preview_active, hotkey_alive, shutdown,
    \* the line positions check_line_movement keeps, and every line position
    \* seen since that list was last emptied (observer)
    line_moving_history, line_seen

vars == << clock, game_fps, auto_walk_enabled, auto_sell_on,
           running, startup_time, click_lock, blind_until, dig_count,
           frames_since_last_zone_detection, smoothed_zone_x, smoothed_zone_w,
           is_color_locked, locked_color_hsv, locked_color_hex, is_low_sat_lock,
           target_engaged, is_selling,
           auto_walk_state, move_completed_time, wait_for_target_start,
           current_step_click_enabled, dig_completed_time, target_disengaged_time,
           pending_auto_sell, click_retry_count, click_delay, walk_alive,
           delayed_clicks, instant_clicks,
           frame_log, last_sched_click, diseng_since, expiries, retry_clicks,
           misses, lock_seen, dec_in, dec_out, smooth_log,
           loop_alive, loop_wait, wait_start_time, results_queue,
           sell_thread, walk_moving, walk_log, latency_cache, latency_log,
           last_milestone_notification, preview_active, hotkey_alive, shutdown,
           line_moving_history, line_seen >>

\* what the start and stop of the bot leave alone, besides the loop's locals
untouched == << smooth_log, loop_alive, loop_wait, wait_start_time,
                results_queue, sell_thread, walk_moving, walk_log,
                latency_cache, latency_log,
                last_milestone_notification, preview_active, hotkey_alive,
                shutdown >>

\* what the click threads and the passing of time leave alone
more == << untouched, line_moving_history, line_seen >>

\* everything but the clock and the latency cache
but_latency ==
    << game_fps, auto_walk_enabled, auto_sell_on,
       running, startup_time, click_lock, blind_until, dig_count,
       frames_since_last_zone_detection, smoothed_zone_x, smoothed_zone_w,
       is_color_locked, locked_color_hsv, locked_color_hex, is_low_sat_lock,
       target_engaged, is_selling,
       auto_walk_state, move_completed_time, wait_for_target_start,
       current_step_click_enabled, dig_completed_time, target_disengaged_time,
       pending_auto_sell, click_retry_count, click_delay, walk_alive,
       delayed_clicks, instant_clicks,
       frame_log, last_sched_click, diseng_since, expiries, retry_clicks,
       misses, lock_seen, dec_in, dec_out, smooth_log,
       loop_alive, loop_wait, wait_start_time, results_queue,
       sell_thread, walk_moving, walk_log,
       last_milestone_notification, preview_active, hotkey_alive, shutdown,
       line_moving_history, line_seen >>

(***************************************************************************)
(* Zone tracking: smoothing, colour lock acquisition and release           *)
(***************************************************************************)
NoZone == [x |-> None, w |-> None]

\* zone_timeout_frames = max(int(game_fps * 0.167), 5)
zone_timeout_frames_wrong(fps) == Max(fps, zone_timeout_min)
zone_timeout_frames(fps) == Max((fps * 167) \div 1000, zone_timeout_min)

\* self.frames_since_last_zone_detection > zone_timeout_frames
LockTimedOut_wrong(n, fps) == n >= zone_timeout_frames(fps)
LockTimedOut(n, fps) == n > zone_timeout_frames(fps)

\* the display colour derived from the locked mean HSV
HexOf(hsv) == << "#" >> \o hsv

\* adaptive smoothing factor (per mille) for a raw candidate
AdaptiveSmoothing_wrong(alpha, rx, rw, sx, sw) ==
    IF alpha >= 1000 THEN 1000 ELSE Min(alpha + 200, 1000)
AdaptiveSmoothing(alpha, rx, rw, sx, sw) ==
    IF alpha >= 1000 THEN 1000
    ELSE IF alpha <= 10 THEN alpha
    ELSE IF Abs(rx - sx) * 10 > frame_width * 100
            \/ Abs(rw - sw) * 10 > frame_width * 100
         THEN Min(alpha + 100, 1000)
         ELSE alpha

\* adaptive_smoothing * raw + (1 - adaptive_smoothing) * smoothed, times 1000
SmoothNum(a, raw, old) == a * raw + (1000 - a) * old

Smooth(a, raw, old) == SmoothNum(a, raw, old) \div 1000

\* picked_color_rgb as the loop parses it (lines 1315-1323): an optional "#",
\* then exactly six hexadecimal digits
HexDigits ==
    { "0", "1", "2", "3", "4", "5", "6", "7", "8", "9",
      "a", "b", "c", "d", "e", "f", "A", "B", "C", "D", "E", "F" }
StripHash(str) == IF Len(str) > 0 /\ Head(str) = "#" THEN Tail(str) ELSE str

\* str.strip(), for blanks
RECURSIVE LStrip(_)
LStrip(str) ==
    IF Len(str) > 0 /\ Head(str) = " " THEN LStrip(Tail(str)) ELSE str
RECURSIVE RStrip(_)
RStrip(str) ==
    IF Len(str) > 0 /\ str[Len(str)] = " "
    THEN RStrip(SubSeq(str, 1, Len(str) - 1)) ELSE str
Strip(str) == RStrip(LStrip(str))

\* int(str, 16) does not raise: blanks around, an optional sign, an optional
\* 0x prefix, then hexadecimal digits, single underscores between them
Unsigned(str) ==
    IF Len(str) > 0 /\ Head(str) \in { "+", "-" } THEN Tail(str) ELSE str
HasPrefix(str) == Len(str) >= 2 /\ str[1] = "0" /\ str[2] \in { "x", "X" }
DigitsOk(str, may_lead) ==
    /\ \E i \in 1..Len(str) : str[i] \in HexDigits
    /\ \A i \in 1..Len(str) :
          \/ str[i] \in HexDigits
          \/ /\ str[i] = "_"
             /\ i < Len(str) /\ str[i + 1] \in HexDigits
             /\ IF i = 1 THEN may_lead ELSE str[i - 1] \in HexDigits
IntBase16Ok(str) ==
    LET u == Unsigned(Strip(str))
    IN IF HasPrefix(u) /\ DigitsOk(SubSeq(u, 3, Len(u)), TRUE) THEN TRUE
       ELSE DigitsOk(u, FALSE)

\* the colour is set: picked_color and picked_color.strip() (line 1313)
HasColor(str) == Strip(str) # << >>

\* lines 1315-1323 raise no ValueError: after strip() and the removal of one
\* leading "#", six characters that int(..., 16) accepts
HexOk(str) ==
    /\ Len(StripHash(Strip(str))) = 6
    /\ IntBase16Ok(StripHash(Strip(str)))

\* logger.warning (line 1349): only where the parse raised
WarningLogged(method) == method = "saturation_fallback"

\* How the mask of one iteration is produced (lines 1303-1493): by range
\* matching on the locked colour when a lock is held, else by the configured
\* detection strategy, with the saturation threshold as the fallback.
MaskMethod_wrong(locked, prm) == "saturation"
MaskMethod(locked, prm) ==
    IF locked THEN "range"
    ELSE IF prm.use_color_picker_detection
         THEN IF HasColor(prm.picked_color_rgb)
              THEN IF HexOk(prm.picked_color_rgb) THEN "color_picker"
                   ELSE "saturation_fallback"
              ELSE "saturation_no_color"
    ELSE IF prm.use_otsu_detection
         THEN IF prm.otsu_adaptive_area THEN "otsu_adaptive" ELSE "otsu_fixed"
    ELSE "saturation"

\* the first candidate after the smoothed zone was unset (lines 1557-1558)
Snap_wrong(z, rz) == [z EXCEPT !.smoothed_zone_x = rz.x]
Snap(z, rz) == [z EXCEPT !.smoothed_zone_x = rz.x, !.smoothed_zone_w = rz.w]

\* the lock release (lines 1590-1593): the smoothed width and the
\* low-saturation flag keep their values
ReleaseLock_wrong(z) ==
    [z EXCEPT !.is_color_locked = FALSE,
              !.locked_color_hsv = NoColor,
              !.locked_color_hex = NoColor]
ReleaseLock(z) ==
    [z EXCEPT !.is_color_locked = FALSE,
              !.locked_color_hsv = NoColor,
              !.locked_color_hex = NoColor,
              !.smoothed_zone_x = None]

\* One iteration's zone step on the zone fields z, for the raw candidate rz
\* (NoZone when no contour was accepted), the mean HSV of that contour and
\* the configured smoothing factor.
ZonePhase(z, rz, hsv, alpha, fps) ==
    LET found == rz.x # None
        z1 == IF found /\ ~z.is_color_locked
              THEN [z EXCEPT !.is_color_locked = TRUE,
                             !.locked_color_hsv = hsv,
                             !.locked_color_hex = HexOf(hsv),
                             !.is_low_sat_lock = hsv[2] < low_sat_limit]
              ELSE z
        z2 == IF found
              THEN IF z1.smoothed_zone_x = None
                   THEN [Snap(z1, rz) EXCEPT !.frames = 0]
                   ELSE LET a == AdaptiveSmoothing(alpha, rz.x, rz.w,
                                     z1.smoothed_zone_x, z1.smoothed_zone_w)
                        IN [z1 EXCEPT !.frames = 0,
                                !.smoothed_zone_x = Smooth(a, rz.x, z1.smoothed_zone_x),
                                !.smoothed_zone_w = Smooth(a, rz.w, z1.smoothed_zone_w)]
              ELSE [z1 EXCEPT !.frames = z1.frames + 1]
    IN IF LockTimedOut(z2.frames, fps) THEN ReleaseLock(z2) ELSE z2


(***************************************************************************)
(* Sweet spot and the click decision of one iteration                      *)
(***************************************************************************)
\* What the iteration feeds the decision with.  line_pos is in pixels (-1:
\* undetected), velocity in px/s, predicted_pos in sweet-spot units,
\* prediction_time and latency in ms, velocity_confidence per mille, pct the
\* (velocity-adjusted) sweet-spot width in percent of the zone width.
PosUnit == 200 * 100

\* sweet_spot_center = x + w/2, start/end = center -/+ (w * pct/100)/2
SweetSpot(x, w, pct) ==
    IF x = None THEN [center |-> None, start |-> None, end |-> None]
    ELSE [center |-> 200 * x + 100 * w,
          start  |-> 200 * x + 100 * w - w * pct,
          end    |-> 200 * x + 100 * w + w * pct]

\* (game_fps / 120.0) ** 0.15, in millionths
FpsPow(fps) ==
    CASE fps = 30  -> 812252
      [] fps = 40  -> 848070
      [] fps = 60  -> 901250
      [] fps = 120 -> 1000000
      [] fps = 240 -> 1109569

\* is_moving_towards
MovingTowards_wrong(line, center, velocity) == velocity # 0 /\ line # center
MovingTowards(line, center, velocity) ==
    (line < center /\ velocity > 0) \/ (line > center /\ velocity < 0)

\* fps_latency_adjustment = system_latency * (120.0 / game_fps) * 0.8, and
\* sleep_duration = prediction_time - fps_latency_adjustment, in microseconds
SleepDuration_wrong(prediction_time, latency, fps) ==
    prediction_time * 1000 - (latency * 120000) \div fps
SleepDuration(prediction_time, latency, fps) ==
    prediction_time * 1000 - (latency * 96000) \div fps

\* if sleep_duration > 0
SleepOk(sleep) == sleep > 0

\* fps_adjusted_threshold = prediction_confidence_threshold
\*                          * (game_fps / 120.0) ** 0.15, per mille
FpsAdjustedThreshold(threshold, fps) == (threshold * FpsPow(fps)) \div 1000000

\* confidence >= fps_adjusted_threshold
\* with confidence = (1 - dist/radius) * velocity_confidence
ConfidenceOk(radius, dist, vconf, threshold, fps) ==
    (radius - dist) * vconf >= FpsAdjustedThreshold(threshold, fps) * radius

\* The prediction branch (lines 1838-1893): the delay of the predictive click
\* it schedules, or 0 when it schedules none; and the confidence it computed.
Prediction(d, ss, prm, fps) ==
    LET line   == d.line_pos * PosUnit
        radius == (ss.end - ss.start) \div 2
        dist   == Abs(d.predicted_pos - ss.center)
        reach  == /\ prm.prediction_enabled
                  /\ d.line_pos # -1
                  /\ MovingTowards(line, ss.center, d.velocity)
                  /\ d.prediction_time > 0
                  /\ dist <= radius
        sleep  == SleepDuration(d.prediction_time, d.latency, fps)
        conf   == IF reach THEN ((radius - dist) * d.velocity_confidence) \div radius
                  ELSE 0
        ok     == /\ reach
                  /\ ConfidenceOk(radius, dist, d.velocity_confidence,
                                  prm.prediction_confidence_threshold, fps)
                  /\ SleepOk(sleep)
    IN [scheduled |-> ok, delay |-> IF ok THEN sleep ELSE 0, confidence |-> conf]

\* the direct click forgotten
Combine_wrong(p, line_in) ==
    [should_click |-> p.scheduled, click_delay |-> p.delay,
     prediction_used |-> p.scheduled, confidence |-> p.confidence]

\* if not should_click and line_in_sweet_spot: should_click, confidence = True, 1.0
Combine(p, line_in) ==
    IF p.scheduled
    THEN [should_click |-> TRUE, click_delay |-> p.delay,
          prediction_used |-> TRUE, confidence |-> p.confidence]
    ELSE IF line_in
    THEN [should_click |-> TRUE, click_delay |-> 0,
          prediction_used |-> FALSE, confidence |-> 1000]
    ELSE [should_click |-> FALSE, click_delay |-> 0,
          prediction_used |-> FALSE, confidence |-> p.confidence]

\* The decision block (lines 1829-1897)
ClickDecision(d, ss, prm, fps) ==
    LET line    == d.line_pos * PosUnit
        line_in == ss.start <= line /\ line <= ss.end
    IN Combine(Prediction(d, ss, prm, fps), line_in)


(***************************************************************************)
(* The loop state one iteration works on, and its phases                   *)
(***************************************************************************)
Cur ==
    [auto_walk_state |-> auto_walk_state,
     move_completed_time |-> move_completed_time,
     wait_for_target_start |-> wait_for_target_start,
     current_step_click_enabled |-> current_step_click_enabled,
     dig_completed_time |-> dig_completed_time,
     target_disengaged_time |-> target_disengaged_time,
     pending_auto_sell |-> pending_auto_sell,
     click_retry_count |-> click_retry_count,
     click_delay |-> click_delay,
     walk_alive |-> walk_alive,
     click_lock |-> click_lock,
     delayed_clicks |-> delayed_clicks,
     instant_clicks |-> instant_clicks,
     blind_until |-> blind_until,
     dig_count |-> dig_count,
     last_sched_click |-> last_sched_click,
     \* what this iteration did
     walk_click |-> "none", walk_delay |-> None,
     retried |-> FALSE, expired |-> FALSE,
     gave_up |-> FALSE, evaluated |-> FALSE, in_window |-> FALSE,
     sched |-> "none", dropped |-> FALSE, held |-> FALSE, blocked |-> FALSE,
     blinded |-> FALSE,
     started |-> 0, dug |-> FALSE, sell_started |-> FALSE,
     \* self.running as the guards at 1644 and 1821 read it
     run_walk |-> running, run_sched |-> running,
     walk_started |-> FALSE, pending_cleared |-> "none", crashed |-> FALSE]

\* not self.click_lock.locked()
LockFree_wrong(lock) == TRUE
LockFree(lock) == ~lock

\* self.click_lock.acquire(); threading.Thread(target=self.perform_click, ...).start()
StartDelayedClick(s) ==
    [s EXCEPT !.held = s.held \/ s.click_lock,
              !.click_lock = TRUE,
              !.delayed_clicks = s.delayed_clicks + 1,
              !.started = s.started + 1]

\* perform_instant_click: at most _max_click_threads instant clicks alive
StartInstantClick(s) ==
    IF s.instant_clicks < max_click_threads
    THEN [s EXCEPT !.held = s.held \/ s.click_lock,
                   !.instant_clicks = s.instant_clicks + 1,
                   !.started = s.started + 1]
    ELSE [s EXCEPT !.dropped = TRUE]

\* the stale-pending timeout (lines 1634-1641)
PendingTimeout_wrong(s, now) == s
PendingTimeout(s, now) ==
    IF s.pending_auto_sell /\ s.dig_completed_time > 0
       /\ now - s.dig_completed_time > pending_timeout
    THEN [s EXCEPT !.pending_auto_sell = FALSE, !.dig_completed_time = 0,
                   !.pending_cleared = "timeout"]
    ELSE s

\* auto_walk_state == "move" (lines 1648-1751)
\* the step's own duration, else the walk_duration parameter (lines 1743-1749)
StepDuration(dir) ==
    IF dir.duration # None THEN dir.duration ELSE walk_duration

\* move_completed_time (line 1751)
MoveCompletedTime_wrong(now, duration) == now + duration
MoveCompletedTime(now, duration) == now + duration + settle_time

\* not self.automation_manager.is_selling and not pending_auto_sell
\* (lines 1690-1692)
MayIssueStep_wrong(selling, pending) == ~selling
MayIssueStep(selling, pending) == ~selling /\ ~pending

MoveState(s, now, dir, sell_ready) ==
    IF s.pending_auto_sell /\ s.dig_completed_time > 0
       /\ now - s.dig_completed_time >= post_dig_delay
    THEN [s EXCEPT !.pending_auto_sell = FALSE, !.dig_completed_time = 0,
                   !.sell_started = sell_ready,
                   !.pending_cleared = IF sell_ready THEN "sold" ELSE "skipped"]
    ELSE IF MayIssueStep(is_selling, s.pending_auto_sell)
    THEN IF ~s.walk_alive
         THEN [s EXCEPT !.current_step_click_enabled = dir.click,
                        !.walk_alive = TRUE,
                        !.walk_started = TRUE,
                        !.auto_walk_state = "click_to_start",
                        !.move_completed_time =
                            MoveCompletedTime(now, StepDuration(dir))]
         ELSE s
    ELSE s

\* where a step whose click is disabled leaves the state machine (line 1768)
AfterSkip_wrong(state) == "digging"
AfterSkip(state) == "move"

\* if current_step_click_enabled (line 1758)
MakesStartClick_wrong(enabled) == TRUE
MakesStartClick(enabled) == enabled

\* auto_walk_state == "click_to_start", deadline reached (lines 1753-1768)
ClickToStartState(s, now) ==
    IF MakesStartClick(s.current_step_click_enabled)
    THEN IF LockFree(s.click_lock)
         THEN [StartDelayedClick(s) EXCEPT !.walk_click = "start",
                                           \* args=(click_delay,) (line 1762)
                                           !.walk_delay = s.click_delay,
                                           !.auto_walk_state = "wait_for_target",
                                           !.wait_for_target_start = now]
         ELSE [s EXCEPT !.blocked = TRUE]
    ELSE [s EXCEPT !.auto_walk_state = AfterSkip(s.auto_walk_state)]

\* current_time_ms - wait_for_target_start > max_wait_time
WaitExpired(now, start) == now - start > max_wait_time

\* click_retry_count < max_click_retries
MayRetry_wrong(n) == n <= max_click_retries
MayRetry(n) == n < max_click_retries

\* auto_walk_state == "wait_for_target" (lines 1770-1796)
WaitForTargetState(s, now, eng) ==
    IF eng
    THEN [s EXCEPT !.auto_walk_state = "digging",
                   !.target_disengaged_time = 0,
                   !.click_retry_count = 0]
    ELSE IF WaitExpired(now, s.wait_for_target_start)
    THEN IF MayRetry(s.click_retry_count)
         THEN LET s1 == [s EXCEPT !.click_retry_count = s.click_retry_count + 1,
                                  !.expired = TRUE]
              IN IF LockFree(s1.click_lock)
                 THEN [StartDelayedClick(s1) EXCEPT !.retried = TRUE,
                                                    !.walk_click = "retry",
                                                    \* args=(0,) (line 1788)
                                                    !.walk_delay = 0,
                                                    !.wait_for_target_start = now]
                 ELSE [s1 EXCEPT !.blocked = TRUE]
         ELSE [s EXCEPT !.click_retry_count = 0,
                        !.auto_walk_state = "move",
                        !.expired = TRUE, !.gave_up = TRUE]
    ELSE s

\* auto_walk_state == "digging" (lines 1798-1803)
DiggingState(s, now, eng) ==
    IF ~eng
    THEN IF s.target_disengaged_time = 0
         THEN [s EXCEPT !.target_disengaged_time = now]
         ELSE s
    ELSE [s EXCEPT !.target_disengaged_time = 0]

\* self.running and self.get_param("auto_walk_enabled")
\*     and not self.automation_manager.is_selling    (lines 1643-1647)
WalkGuard_wrong(run, enabled, selling) == enabled /\ ~selling
WalkGuard(run, enabled, selling) == run /\ enabled /\ ~selling

\* The auto-walk state machine of one iteration (lines 1643-1803)
WalkPhase(s, now, eng, dir, sell_ready) ==
    IF ~WalkGuard(s.run_walk, auto_walk_enabled, is_selling) THEN s
    ELSE IF s.auto_walk_state = "move" THEN MoveState(s, now, dir, sell_ready)
    ELSE IF s.auto_walk_state = "click_to_start"
            /\ now >= s.move_completed_time /\ ~is_selling
         THEN ClickToStartState(s, now)
    ELSE IF s.auto_walk_state = "wait_for_target" /\ ~is_selling
         THEN WaitForTargetState(s, now, eng)
    ELSE IF s.auto_walk_state = "digging" THEN DiggingState(s, now, eng)
    ELSE s


\* current_time_ms >= self.blind_until
BlindOver_wrong(now, blind) == TRUE
BlindOver(now, blind) == now >= blind

\* should_allow_clicking (lines 1805-1813)
ShouldAllowClicking_wrong(s, eng) == eng
ShouldAllowClicking(s, eng) ==
    IF auto_walk_enabled
    THEN s.auto_walk_state = "digging" /\ ~is_selling /\ eng
    ELSE eng

\* is_past_startup_grace (line 1818)
PastStartupGrace(now) ==
    startup_time = None \/ now - startup_time > startup_grace_period

\* The click scheduler of one iteration (lines 1805-1920)
SchedPhase(s, now, eng, ss, d, prm) ==
    LET ready == /\ s.run_sched
                 /\ ShouldAllowClicking(s, eng)
                 /\ ss.center # None
                 /\ PastStartupGrace(now)
        open == ready /\ BlindOver(now, s.blind_until)
        gate == open /\ LockFree(s.click_lock)
        window == /\ s.last_sched_click # None
                  /\ now < s.last_sched_click + post_click_blindness
        dec  == ClickDecision(d, ss, prm, game_fps)
        s1   == [s EXCEPT !.evaluated = TRUE,
                          !.in_window = window,
                          !.click_delay = dec.click_delay]
        s2   == [s1 EXCEPT !.blind_until = now + post_click_blindness,
                           !.last_sched_click = now,
                           !.sched = IF dec.prediction_used THEN "predictive"
                                     ELSE "direct"]
    IN IF ~gate THEN [s EXCEPT !.blocked = s.blocked \/ open,
                               !.blinded = ready /\ ~s.click_lock /\ window]
       ELSE IF ~dec.should_click THEN s1
       ELSE IF dec.click_delay = 0 THEN StartInstantClick(s2)
       ELSE StartDelayedClick(s2)

\* current_time_ms - target_disengaged_time > 1500
DigDone(now, since) == now - since > disengage_time

\* where a completed dig leaves the state machine (line 1953)
AfterDig_wrong(state) == state
AfterDig(state) == "move"

\* self.dig_count % sell_every_x_digs raises ZeroDivisionError for 0, and
\* nothing in run_main_loop catches it; the operands before it short-circuit
ModRaises_wrong(sell_on, count, every) == FALSE
ModRaises(sell_on, count, every) == sell_on /\ count > 0 /\ every = 0

\* auto_sell_enabled and has_sell_button and dig_count > 0
\*     and dig_count % sell_every_x_digs == 0    (lines 1942-1947)
SellThreshold(sell_on, count, every) ==
    sell_on /\ count > 0 /\ every # 0 /\ count % every = 0

\* Dig completion (lines 1922-1954); auto_sell_on stands for
\* auto_sell_enabled with a sell button position set
DigPhase(s, now, prm) ==
    IF /\ auto_walk_enabled
       /\ s.auto_walk_state = "digging"
       /\ s.target_disengaged_time > 0
       /\ DigDone(now, s.target_disengaged_time)
    THEN IF ModRaises(auto_sell_on, s.dig_count + 1, prm.sell_every_x_digs)
         THEN [s EXCEPT !.dig_count = s.dig_count + 1,
                        !.dig_completed_time = now,
                        !.crashed = TRUE]
         ELSE [s EXCEPT !.dig_count = s.dig_count + 1,
                        !.dig_completed_time = now,
                        !.pending_auto_sell =
                             IF SellThreshold(auto_sell_on, s.dig_count + 1,
                                              prm.sell_every_x_digs)
                             THEN TRUE ELSE s.pending_auto_sell,
                        !.auto_walk_state = AfterDig(s.auto_walk_state),
                        !.dug = TRUE]
    ELSE s


\* check_milestone_notifications (lines 791-816) with a webhook URL set:
\* whether a notification thread is started, and last_milestone_notification
CheckMilestoneNotifications(count, last, interval) ==
    LET sent == /\ interval > 0
                /\ count > 0
                /\ count % Max(interval, 1) = 0
                /\ count # last
    IN [sent |-> sent, last |-> IF sent THEN count ELSE last]

(***************************************************************************)
(* The latency cache (lines 252-271, 2032-2061). Times are time.time() in  *)
(* ms: the clock plus Epoch; an attribute that is not set is None.         *)
(***************************************************************************)
NoLatency == [cached |-> None, mtime |-> None, measured |-> None]

\* DigTool.measure_system_latency (lines 252-263); lat is what the external
\* measurement returns
MeasureSystemLatency(c, t, lat) ==
    IF c.measured # None /\ c.mtime # None /\ t - c.mtime < measurement_ttl
    THEN [cache |-> c, value |-> c.measured, measured |-> FALSE]
    ELSE [cache |-> [c EXCEPT !.measured = lat, !.mtime = t],
          value |-> lat, measured |-> TRUE]

\* DigTool.get_cached_system_latency (lines 2045-2061)
GetCachedSystemLatency(c, t, lat) ==
    IF c.cached # None /\ c.mtime # None /\ t - c.mtime < latency_cache_ttl
    THEN [cache |-> c, value |-> c.cached, measured |-> FALSE]
    ELSE IF c.cached = None \/ c.mtime = None
    THEN LET m == MeasureSystemLatency(c, t, lat)
         IN [cache |-> [m.cache EXCEPT !.cached = m.value, !.mtime = t],
             value |-> m.value, measured |-> m.measured]
    ELSE [cache |-> c, value |-> c.cached, measured |-> FALSE]

\* DigTool.force_latency_remeasurement (lines 265-271)
ForceLatencyRemeasurement(c, t, lat) ==
    LET c0 == IF c.mtime # None THEN [c EXCEPT !.mtime = 0] ELSE c
        m == MeasureSystemLatency(c0, t, lat)
    IN [cache |-> [m.cache EXCEPT !.cached = m.value],
        value |-> m.value, measured |-> m.measured]

\* DigTool.perform_initial_latency_measurement (lines 2032-2043); ok: the
\* measurement did not raise
InitialLatencyMeasurement(c, t, lat, ok) ==
    IF ok
    THEN LET m == MeasureSystemLatency(c, t, lat)
         IN [cache |-> [m.cache EXCEPT !.cached = m.value],
             value |-> m.value, measured |-> m.measured]
    ELSE [cache |-> [c EXCEPT !.cached = default_latency],
          value |-> default_latency, measured |-> FALSE]

\* the age of the last measurement at time t (None: never measured)
LatencyAge(c, t) == IF c.mtime = None THEN None ELSE t - c.mtime

NoLatencyLog ==
    [op |-> "none", age |-> None, had |-> None, lat |-> None,
     value |-> None, measured |-> FALSE]

\* the observer after operation op with result r on cache c at time t
LatencyLogged(op, c, t, lat, r) ==
    [op |-> op, age |-> LatencyAge(c, t), had |-> c.cached, lat |-> lat,
     value |-> r.value, measured |-> r.measured]

(***************************************************************************)
(* One iteration of run_main_loop (lines 1197-2027) at time clock          *)
(***************************************************************************)
(***************************************************************************)
(* Line detection (lines 1257-1270) and where its two results go           *)
(***************************************************************************)
\* velocity_line_pos: the full-frame scan's position, else what the scan of
\* the bottom 30% of the frame found (lines 1261-1270)
VelocityLinePos(full_scan, bottom_scan) ==
    IF full_scan = -1 THEN bottom_scan ELSE full_scan

\* line_pos: the full-frame scan's position (lines 1257-1259)
LinePos_wrong(full_scan, bottom_scan) == VelocityLinePos(full_scan, bottom_scan)
LinePos(full_scan, bottom_scan) == full_scan

\* the band around the line is cut out of the mask (lines 1441, 1496)
ExclusionBand(line_pos, radius) == radius > 0 /\ line_pos # -1

\* "line_detected" of the published results (line 1995)
LineDetected(line_pos) == line_pos # -1

\* observer of the line detection of a frame
NoLine == [seen |-> FALSE, full_scan |-> -1, bottom_scan |-> -1, sample |-> -1,
           band |-> FALSE, detected |-> FALSE]

(***************************************************************************)
(* Target engagement (lines 222-250)                                       *)
(***************************************************************************)
\* line_movement_check_frames (lines 223-225); int() truncates
LineMovementCheckFrames(fps) ==
    Max((base_line_movement_check_frames * fps) \div 120, min_history_length)

\* lines 227-230: append, then drop the oldest sample of a list that is
\* longer than the window
HistoryAfter_wrong(h, p, fps) == Append(h, p)
HistoryAfter(h, p, fps) ==
    LET a == Append(h, p)
    IN IF Len(a) > LineMovementCheckFrames(fps) THEN Tail(a) ELSE a

ValidPositions(h) == { i \in 1..Len(h) : h[i] # -1 }

MovementRange(h) ==
    LET v == { h[i] : i \in ValidPositions(h) }
    IN (CHOOSE a \in v : \A b \in v : a >= b)
       - (CHOOSE a \in v : \A b \in v : a <= b)

\* check_line_movement (lines 232-245), on the list it has just updated
CheckLineMovement(h) ==
    IF Len(h) < min_history_length THEN FALSE
    ELSE IF Cardinality(ValidPositions(h)) < min_valid_positions THEN FALSE
    ELSE MovementRange(h) >= min_movement_threshold

\* return line_detected and line_moving (lines 247-250)
TargetEngagement(line_pos, line_moving) == line_pos # -1 /\ line_moving

\* check_target_engagement (lines 247-251)
CheckTargetEngagement(h, line_pos, fps) ==
    TargetEngagement(line_pos,
                     CheckLineMovement(HistoryAfter(h, line_pos, fps)))

\* the number of times the line position changes along a list
Turns(h) == Cardinality({ i \in 1..(Len(h) - 1) : h[i] # h[i + 1] })

NoDecision ==
    [done |-> FALSE, should_click |-> FALSE, click_delay |-> 0,
     prediction_used |-> FALSE, confidence |-> 0]

Decided(dec) ==
    [done |-> TRUE, should_click |-> dec.should_click,
     click_delay |-> dec.click_delay,
     prediction_used |-> dec.prediction_used, confidence |-> dec.confidence]

\* the observers an iteration keeps: the decision (dec_in, dec_out), the
\* smoothing step (smooth_log)
NoRec == [decision |-> FALSE, smoothing |-> FALSE, latency |-> FALSE,
          history |-> FALSE, step |-> FALSE, zone |-> FALSE, line |-> FALSE,
          detect |-> FALSE, guard |-> FALSE, milestone |-> FALSE]

\* observer of the milestone check of a completed dig: the dig count, the
\* interval it read and whether it started a notification
NoMilestone == [seen |-> FALSE, count |-> 0, interval |-> 0, sent |-> FALSE]

\* observer of the scheduler's guard: what should_allow_clicking read (the
\* state after the state machine's step, is_selling, target_engaged), the
\* line position of the frame and the value it computed
NoGuard == [seen |-> FALSE, state |-> "move", selling |-> FALSE,
            engaged |-> FALSE, line_pos |-> -1, allowed |-> FALSE]

\* observer of the detection: the strategy parameters the frame read and
\* whether it logged a warning
NoDetect == [seen |-> FALSE, use_color_picker |-> FALSE, picked_color |-> << >>,
             use_otsu |-> FALSE, adaptive |-> FALSE, warned |-> FALSE]

\* observer of the zone step: the raw candidate, the smoothing factor and the
\* smoothed zone the frame found
NoZoneLog == [raw |-> NoZone, alpha |-> 0, x_before |-> None, w_before |-> None]

\* observer of a walk step: the frame time, the step the frame was given and
\* what the frame found (movement thread, deadline, click token, sell)
NoStep == [at |-> None, click |-> TRUE, duration |-> None, walk_alive |-> FALSE,
           deadline |-> 0, lock |-> FALSE, lock_after |-> FALSE,
           selling |-> FALSE]

NoSmooth ==
    [n |-> 0, alpha |-> 0, raw_x |-> 0, old_x |-> 0, num_x |-> 0, new_x |-> 0,
     raw_w |-> 0, old_w |-> 0, num_w |-> 0, new_w |-> 0]

ZoneCur ==
    [frames |-> frames_since_last_zone_detection,
     smoothed_zone_x |-> smoothed_zone_x,
     smoothed_zone_w |-> smoothed_zone_w,
     is_color_locked |-> is_color_locked,
     locked_color_hsv |-> locked_color_hsv,
     locked_color_hex |-> locked_color_hex,
     is_low_sat_lock |-> is_low_sat_lock]

\* which dispatches of an iteration the loop then waits for: the sell thread
\* (lines 1666-1675), not the walk thread (1736-1739), not a click (1914-1920)
WaitsAfter_wrong(sell, walk, clicks) == sell \/ walk
WaitsAfter(sell, walk, clicks) == sell

\* no other thread interferes with the iteration
Calm == [sell_ready |-> FALSE, stop_at |-> "none", bottom_scan |-> -1]

\* the pending sell is older than the stale-pending timeout
Stale(pending, completed, now) == pending /\ now - completed > pending_timeout

\* if self.results_queue.empty(): ... put_nowait(...) (lines 1956-2008); an
\* iteration that raised never reaches the publication
Publishes_wrong(queue, crashed) == ~crashed
Publishes(queue, crashed) == ~crashed /\ queue = 0

\* the result channel after the publication step: queue.Queue(maxsize=1)
Publish(queue, crashed) == IF Publishes(queue, crashed) THEN queue + 1 ELSE queue

\* rz, hsv: the accepted contour (or NoZone) and its mean HSV; eng: the result
\* of check_target_engagement; d: the line, velocity and prediction values;
\* dir: the next walk step; prm: the configuration read in this iteration.
\* rec: which observers are kept (see NoRec).
\* env: what the other threads do during the iteration (see Calm):
\* sell_ready is the answer of is_auto_sell_ready; stop_at says after which
\* read of self.running the GUI thread clears it ("walk": after the read of
\* line 1644, "sched": after the read of line 1821).
Iterate(rz, hsv, eng, scan, dir, prm, rec, env) ==
    \E d \in { [scan EXCEPT !.line_pos = LinePos(scan.line_pos, env.bottom_scan)] } :
    \E z \in { ZonePhase(ZoneCur, rz, hsv, prm.zone_smoothing_factor, game_fps) } :
    \E ss \in { SweetSpot(z.smoothed_zone_x, z.smoothed_zone_w, d.pct) } :
    \E s0 \in { PendingTimeout([Cur EXCEPT !.run_sched =
                                    running /\ env.stop_at # "walk"], clock) } :
    \E s1 \in { WalkPhase(s0, clock, eng, dir, env.sell_ready) } :
    \E s2 \in { SchedPhase(s1, clock, eng, ss, d, prm) } :
    \E s3 \in { DigPhase(s2, clock, prm) } :
    \E lr \in { GetCachedSystemLatency(latency_cache, clock + Epoch, d.latency) } :
    LET now == clock
        \* system_latency = self.get_cached_system_latency() (line 1842)
        reads == s3.evaluated /\ prm.prediction_enabled /\ d.line_pos # -1
        stopped == env.stop_at # "none"
        smoothed == rz # NoZone /\ smoothed_zone_x # None
        a_eff == AdaptiveSmoothing(prm.zone_smoothing_factor, rz.x, rz.w,
                                   smoothed_zone_x, smoothed_zone_w)
        tracking == /\ running /\ auto_walk_enabled /\ ~is_selling
                    /\ auto_walk_state = "digging" /\ ~eng
        since == IF ~tracking THEN None
                 ELSE IF diseng_since = None THEN now ELSE diseng_since
        \* self.check_milestone_notifications() (line 1954)
        ms == IF s3.dug
              THEN CheckMilestoneNotifications(s3.dig_count,
                       last_milestone_notification, prm.milestone_interval)
              ELSE [sent |-> FALSE, last |-> last_milestone_notification]
    IN /\ loop_alive /\ ~loop_wait
       \* while self.preview_active (line 1197)
       /\ preview_active
       /\ reads => d.latency = lr.value
       \* self.target_engaged = self.check_target_engagement(...) (line 1609)
       /\ rec.history =>
            /\ eng = CheckTargetEngagement(line_moving_history, d.line_pos,
                                           game_fps)
            /\ Len(line_seen) < MaxEngageFrames
            /\ Turns(Append(line_seen, d.line_pos)) <= MaxTurns
       /\ line_moving_history' =
            IF rec.history
            THEN HistoryAfter(line_moving_history, d.line_pos, game_fps)
            ELSE line_moving_history
       /\ line_seen' = IF rec.history THEN Append(line_seen, d.line_pos)
                       ELSE line_seen
       /\ stopped => running
       /\ s1.sell_started => sell_thread = "none"
       /\ s1.sell_started => now + auto_sell_max_wait_time <= SellHorizon * Tick
       \* without the list of positions, eng stands for line_moving too
       /\ ~rec.history => eng = TargetEngagement(d.line_pos, eng)
       /\ rz = NoZone => frames_since_last_zone_detection < MaxNoZoneFrames
       /\ (rec.smoothing /\ smoothed) => smooth_log.n < MaxSmoothSteps
       /\ s3.delayed_clicks <= MaxDelayedClicks
       /\ frames_since_last_zone_detection' = z.frames
       /\ smoothed_zone_x' = z.smoothed_zone_x
       /\ smoothed_zone_w' = z.smoothed_zone_w
       /\ is_color_locked' = z.is_color_locked
       /\ locked_color_hsv' = z.locked_color_hsv
       /\ locked_color_hex' = z.locked_color_hex
       /\ is_low_sat_lock' = z.is_low_sat_lock
       /\ target_engaged' = eng
       /\ auto_walk_state' = s3.auto_walk_state
       /\ move_completed_time' = s3.move_completed_time
       /\ wait_for_target_start' = s3.wait_for_target_start
       /\ current_step_click_enabled' = s3.current_step_click_enabled
       /\ dig_completed_time' = s3.dig_completed_time
       /\ target_disengaged_time' = s3.target_disengaged_time
       /\ pending_auto_sell' = s3.pending_auto_sell
       /\ click_retry_count' = s3.click_retry_count
       /\ click_delay' = s3.click_delay
       /\ walk_alive' = s3.walk_alive
       /\ click_lock' = s3.click_lock
       /\ delayed_clicks' = s3.delayed_clicks
       /\ instant_clicks' = s3.instant_clicks
       /\ blind_until' = s3.blind_until
       /\ dig_count' = s3.dig_count
       /\ last_sched_click' = s3.last_sched_click
       /\ diseng_since' = since
       /\ expiries' = IF s3.walk_click = "start" THEN 0
                      ELSE IF s3.expired THEN expiries + 1 ELSE expiries
       /\ retry_clicks' = IF s3.walk_click = "start" THEN 0
                          ELSE IF s3.retried THEN retry_clicks + 1 ELSE retry_clicks
       /\ misses' = IF rz = NoZone THEN misses + 1 ELSE 0
       /\ lock_seen' = (lock_seen \/ rz # NoZone)
       /\ frame_log' = [from |-> auto_walk_state,
                        mask |-> MaskMethod(is_color_locked, prm),
                        locked_before |-> is_color_locked,
                        hsv_before |-> locked_color_hsv,
                        evaluated |-> s3.evaluated, in_window |-> s3.in_window,
                        sched |-> s3.sched, held |-> s3.held,
                        blocked |-> s3.blocked, blinded |-> s3.blinded,
                        walk_click |-> s3.walk_click,
                        walk_started |-> s3.walk_started,
                        walk_delay |-> s3.walk_delay,
                        expired |-> s3.expired, gave_up |-> s3.gave_up,
                        dug |-> s3.dug, dig_inc |-> s3.dig_count - dig_count,
                        diseng_for |-> IF since = None THEN None
                                       ELSE Min(now - since, disengage_time + 1),
                        pending_before |-> pending_auto_sell,
                        pending_cleared |-> s3.pending_cleared,
                        stale |-> Stale(s3.pending_auto_sell,
                                        s3.dig_completed_time, now),
                        stop_at |-> env.stop_at,
                        run_walk |-> s3.run_walk, run_sched |-> s3.run_sched,
                        walk_tasks |-> (s1.started > 0 \/ s1.walk_started
                                        \/ s1.sell_started),
                        sched_tasks |-> s2.started > s1.started,
                        milestone |-> IF rec.milestone
                                      THEN [seen |-> TRUE,
                                            count |-> s3.dig_count,
                                            interval |-> prm.milestone_interval,
                                            sent |-> ms.sent]
                                      ELSE NoMilestone,
                        guard |-> IF rec.guard
                                  THEN [seen |-> TRUE,
                                        state |-> s1.auto_walk_state,
                                        selling |-> is_selling,
                                        engaged |-> eng,
                                        line_pos |-> d.line_pos,
                                        allowed |-> ShouldAllowClicking(s1, eng)]
                                  ELSE NoGuard,
                        \* the task the scheduler started: a perform_click
                        \* thread under the token (1917-1920), an
                        \* _instant_click thread (1104-1106), or none
                        sched_task |->
                            IF s2.delayed_clicks > s1.delayed_clicks
                            THEN "token"
                            ELSE IF s2.instant_clicks > s1.instant_clicks
                            THEN "instant" ELSE "none",
                        waits |-> s3.sell_started,
                        queue_before |-> results_queue,
                        detect |-> IF rec.detect
                                   THEN [seen |-> TRUE,
                                         use_color_picker |->
                                            prm.use_color_picker_detection,
                                         picked_color |-> prm.picked_color_rgb,
                                         use_otsu |-> prm.use_otsu_detection,
                                         adaptive |-> prm.otsu_adaptive_area,
                                         warned |-> ~is_color_locked /\
                                            WarningLogged(MaskMethod(
                                                is_color_locked, prm))]
                                   ELSE NoDetect,
                        line |-> IF rec.line
                                 THEN [seen |-> TRUE,
                                       full_scan |-> scan.line_pos,
                                       bottom_scan |-> env.bottom_scan,
                                       \* add_position(velocity_line_pos, ...)
                                       sample |-> VelocityLinePos(scan.line_pos,
                                                      env.bottom_scan),
                                       band |-> ExclusionBand(d.line_pos,
                                                   prm.line_exclusion_radius),
                                       detected |-> LineDetected(d.line_pos)]
                                 ELSE NoLine,
                        zone |-> IF rec.zone
                                 THEN [raw |-> rz,
                                       alpha |-> prm.zone_smoothing_factor,
                                       x_before |-> smoothed_zone_x,
                                       w_before |-> smoothed_zone_w]
                                 ELSE NoZoneLog,
                        step |-> IF rec.step
                                 THEN [at |-> now, click |-> dir.click,
                                       duration |-> dir.duration,
                                       walk_alive |-> walk_alive,
                                       deadline |-> move_completed_time,
                                       lock |-> click_lock,
                                       lock_after |-> s3.click_lock,
                                       selling |-> is_selling]
                                 ELSE NoStep,
                        published |-> /\ ~WaitsAfter(s3.sell_started,
                                                     s3.walk_started, s3.started)
                                      /\ Publishes(results_queue, s3.crashed)]
       /\ IF rec.decision /\ s3.evaluated
          THEN /\ dec_in' = [d |-> d, ss |-> ss, prm |-> prm]
               /\ dec_out' = Decided(ClickDecision(d, ss, prm, game_fps))
          ELSE UNCHANGED << dec_in, dec_out >>
       /\ IF rec.smoothing /\ smoothed
          THEN smooth_log' =
                 [n |-> smooth_log.n + 1, alpha |-> prm.zone_smoothing_factor,
                  raw_x |-> rz.x, old_x |-> smoothed_zone_x,
                  num_x |-> SmoothNum(a_eff, rz.x, smoothed_zone_x),
                  new_x |-> z.smoothed_zone_x,
                  raw_w |-> rz.w, old_w |-> smoothed_zone_w,
                  num_w |-> SmoothNum(a_eff, rz.w, smoothed_zone_w),
                  new_w |-> z.smoothed_zone_w]
          ELSE UNCHANGED smooth_log
       /\ running' = (running /\ ~stopped)
       /\ loop_alive' = ~s3.crashed
       /\ loop_wait' = WaitsAfter(s3.sell_started, s3.walk_started, s3.started)
       /\ wait_start_time' = IF WaitsAfter(s3.sell_started, s3.walk_started,
                                           s3.started)
                             THEN now ELSE wait_start_time
       /\ sell_thread' = IF s3.sell_started THEN "started" ELSE sell_thread
       /\ results_queue' = IF WaitsAfter(s3.sell_started, s3.walk_started,
                                         s3.started)
                            THEN results_queue
                            ELSE Publish(results_queue, s3.crashed)
       /\ UNCHANGED << clock, game_fps, auto_walk_enabled, auto_sell_on,
                       startup_time, is_selling >>
       /\ UNCHANGED << walk_moving, walk_log >>
       /\ UNCHANGED << preview_active, hotkey_alive, shutdown >>
       /\ last_milestone_notification' =
            IF rec.milestone THEN ms.last ELSE last_milestone_notification
       /\ latency_cache' = IF reads THEN lr.cache ELSE latency_cache
       /\ latency_log' = IF rec.latency /\ reads
                         THEN LatencyLogged("loop", latency_cache, now + Epoch,
                                            d.latency, lr)
                         ELSE latency_log


(***************************************************************************)
(* The other threads                                                       *)
(***************************************************************************)
\* the loop leaves the wait of lines 1669-1675
SellWaitOver_wrong(selling, run, elapsed) == ~(selling /\ run)
SellWaitOver(selling, run, elapsed) ==
    ~(selling /\ run /\ elapsed < auto_sell_max_wait_time)

\* ms milliseconds pass, up to the horizon of the specification
Pass(ms, horizon) ==
    /\ ms > 0
    /\ clock + ms <= horizon
    \* the wait of lines 1669-1675 polls every 0.1 s: it ends before the
    \* clock moves on once its condition is false
    /\ loop_wait => ~SellWaitOver(is_selling, running, clock - wait_start_time)
    /\ loop_wait => clock + ms <= wait_start_time + auto_sell_max_wait_time
    /\ clock' = clock + ms
    /\ UNCHANGED << game_fps, auto_walk_enabled, auto_sell_on,
           running, startup_time, click_lock, blind_until, dig_count,
           frames_since_last_zone_detection, smoothed_zone_x, smoothed_zone_w,
           is_color_locked, locked_color_hsv, locked_color_hex, is_low_sat_lock,
           target_engaged, is_selling,
           auto_walk_state, move_completed_time, wait_for_target_start,
           current_step_click_enabled, dig_completed_time, target_disengaged_time,
           pending_auto_sell, click_retry_count, click_delay, walk_alive,
           delayed_clicks, instant_clicks,
           frame_log, last_sched_click, diseng_since, expiries, retry_clicks,
           misses, lock_seen, dec_in, dec_out, more >>

\* time passes by stride ticks
Advance(stride, maxTicks) == Pass(stride * Tick, maxTicks * Tick)

\* _toggle_detection_thread_safe (lines 1015-1068), on the GUI thread
Toggle ==
    /\ IF ~running
       THEN /\ running' = TRUE
            /\ dig_count' = 0
            /\ startup_time' = clock
            /\ click_lock' = FALSE
            /\ target_engaged' = FALSE
            /\ line_moving_history' = << >>
            /\ line_seen' = << >>
       ELSE /\ running' = FALSE
            /\ UNCHANGED << dig_count, startup_time, click_lock, target_engaged,
                            line_moving_history, line_seen >>
    /\ UNCHANGED << clock, game_fps, auto_walk_enabled, auto_sell_on, blind_until,
           frames_since_last_zone_detection, smoothed_zone_x, smoothed_zone_w,
           is_color_locked, locked_color_hsv, locked_color_hex, is_low_sat_lock,
           is_selling,
           auto_walk_state, move_completed_time, wait_for_target_start,
           current_step_click_enabled, dig_completed_time, target_disengaged_time,
           pending_auto_sell, click_retry_count, click_delay, walk_alive,
           delayed_clicks, instant_clicks,
           frame_log, last_sched_click, diseng_since, expiries, retry_clicks,
           misses, lock_seen, dec_in, dec_out, untouched >>

\* perform_click_action releases the click token when the click is done
ReleasedByClickAction(lock) == FALSE

\* a perform_click task (lines 1091-1099) runs to its end
ClickTaskDone ==
    /\ delayed_clicks > 0
    /\ delayed_clicks' = delayed_clicks - 1
    /\ click_lock' = ReleasedByClickAction(click_lock)
    /\ UNCHANGED << clock, game_fps, auto_walk_enabled, auto_sell_on,
           running, startup_time, blind_until, dig_count,
           frames_since_last_zone_detection, smoothed_zone_x, smoothed_zone_w,
           is_color_locked, locked_color_hsv, locked_color_hex, is_low_sat_lock,
           target_engaged, is_selling,
           auto_walk_state, move_completed_time, wait_for_target_start,
           current_step_click_enabled, dig_completed_time, target_disengaged_time,
           pending_auto_sell, click_retry_count, click_delay, walk_alive,
           instant_clicks,
           frame_log, last_sched_click, diseng_since, expiries, retry_clicks,
           misses, lock_seen, dec_in, dec_out, more >>

\* an _instant_click thread (lines 1108-1117) runs to its end
InstantClickDone ==
    /\ instant_clicks > 0
    /\ instant_clicks' = instant_clicks - 1
    /\ UNCHANGED << clock, game_fps, auto_walk_enabled, auto_sell_on,
           running, startup_time, click_lock, blind_until, dig_count,
           frames_since_last_zone_detection, smoothed_zone_x, smoothed_zone_w,
           is_color_locked, locked_color_hsv, locked_color_hex, is_low_sat_lock,
           target_engaged, is_selling,
           auto_walk_state, move_completed_time, wait_for_target_start,
           current_step_click_enabled, dig_completed_time, target_disengaged_time,
           pending_auto_sell, click_retry_count, click_delay, walk_alive,
           delayed_clicks,
           frame_log, last_sched_click, diseng_since, expiries, retry_clicks,
           misses, lock_seen, dec_in, dec_out, more >>

\* if self.automation_manager.is_selling or not self.running: return
WalkAborts(selling, run) == selling \/ ~run

\* no walk thread has ended yet
NoWalk == [result |-> "none", advanced |-> 0]

\* if success: self.automation_manager.advance_walk_pattern(): the number of
\* calls a walk thread makes
AdvanceCalls_wrong(success) == 1
AdvanceCalls(success) == IF success THEN 1 ELSE 0

\* the walk thread perform_walk_with_callback starts: the abort check of
\* lines 1706-1713; keep: the outcome is recorded in walk_log
WalkBegin(keep) ==
    /\ walk_alive /\ ~walk_moving
    /\ IF WalkAborts(is_selling, running)
       THEN /\ walk_alive' = FALSE
            /\ walk_log' = IF keep THEN [result |-> "aborted", advanced |-> 0]
                           ELSE walk_log
            /\ UNCHANGED walk_moving
       ELSE /\ walk_moving' = TRUE
            /\ UNCHANGED << walk_alive, walk_log >>
    /\ UNCHANGED << is_selling, loop_wait, results_queue, sell_thread >>
    /\ UNCHANGED << clock, game_fps, auto_walk_enabled, auto_sell_on,
           running, startup_time, click_lock, blind_until, dig_count,
           frames_since_last_zone_detection, smoothed_zone_x, smoothed_zone_w,
           is_color_locked, locked_color_hsv, locked_color_hex, is_low_sat_lock,
           target_engaged,
           auto_walk_state, move_completed_time, wait_for_target_start,
           current_step_click_enabled, dig_completed_time, target_disengaged_time,
           pending_auto_sell, click_retry_count, click_delay,
           delayed_clicks, instant_clicks,
           frame_log, last_sched_click, diseng_since, expiries, retry_clicks,
           misses, lock_seen, dec_in, dec_out, smooth_log, loop_alive,
           wait_start_time, latency_cache, latency_log,
           last_milestone_notification, preview_active, hotkey_alive, shutdown,
           line_moving_history, line_seen >>

\* the walk thread perform_walk_with_callback (lines 1705-1734) runs to its
\* end; success is what the movement step returned
WalkDone(success, keep) ==
    /\ walk_alive /\ walk_moving
    /\ walk_alive' = FALSE
    /\ walk_moving' = FALSE
    /\ walk_log' = IF keep
                   THEN [result |-> IF success THEN "succeeded" ELSE "failed",
                         advanced |-> AdvanceCalls(success)]
                   ELSE walk_log
    /\ UNCHANGED << is_selling, loop_wait, results_queue, sell_thread >>
    /\ UNCHANGED << clock, game_fps, auto_walk_enabled, auto_sell_on,
           running, startup_time, click_lock, blind_until, dig_count,
           frames_since_last_zone_detection, smoothed_zone_x, smoothed_zone_w,
           is_color_locked, locked_color_hsv, locked_color_hex, is_low_sat_lock,
           target_engaged,
           auto_walk_state, move_completed_time, wait_for_target_start,
           current_step_click_enabled, dig_completed_time, target_disengaged_time,
           pending_auto_sell, click_retry_count, click_delay,
           delayed_clicks, instant_clicks,
           frame_log, last_sched_click, diseng_since, expiries, retry_clicks,
           misses, lock_seen, dec_in, dec_out, smooth_log, loop_alive,
           wait_start_time, latency_cache, latency_log,
           last_milestone_notification, preview_active, hotkey_alive, shutdown,
           line_moving_history, line_seen >>

\* automation_manager.perform_auto_sell sets is_selling while it sells
SellBegin ==
    /\ sell_thread = "started"
    /\ sell_thread' = "selling"
    /\ is_selling' = TRUE
    /\ UNCHANGED << walk_alive, walk_moving, walk_log,
                    loop_wait, results_queue >>
    /\ UNCHANGED << clock, game_fps, auto_walk_enabled, auto_sell_on,
           running, startup_time, click_lock, blind_until, dig_count,
           frames_since_last_zone_detection, smoothed_zone_x, smoothed_zone_w,
           is_color_locked, locked_color_hsv, locked_color_hex, is_low_sat_lock,
           target_engaged,
           auto_walk_state, move_completed_time, wait_for_target_start,
           current_step_click_enabled, dig_completed_time, target_disengaged_time,
           pending_auto_sell, click_retry_count, click_delay,
           delayed_clicks, instant_clicks,
           frame_log, last_sched_click, diseng_since, expiries, retry_clicks,
           misses, lock_seen, dec_in, dec_out, smooth_log, loop_alive,
           wait_start_time, latency_cache, latency_log,
           last_milestone_notification, preview_active, hotkey_alive, shutdown,
           line_moving_history, line_seen >>

\* automation_manager.perform_auto_sell returns
SellEnd ==
    /\ sell_thread \in {"started", "selling"}
    /\ sell_thread' = "none"
    /\ is_selling' = FALSE
    /\ UNCHANGED << walk_alive, walk_moving, walk_log,
                    loop_wait, results_queue >>
    /\ UNCHANGED << clock, game_fps, auto_walk_enabled, auto_sell_on,
           running, startup_time, click_lock, blind_until, dig_count,
           frames_since_last_zone_detection, smoothed_zone_x, smoothed_zone_w,
           is_color_locked, locked_color_hsv, locked_color_hex, is_low_sat_lock,
           target_engaged,
           auto_walk_state, move_completed_time, wait_for_target_start,
           current_step_click_enabled, dig_completed_time, target_disengaged_time,
           pending_auto_sell, click_retry_count, click_delay,
           delayed_clicks, instant_clicks,
           frame_log, last_sched_click, diseng_since, expiries, retry_clicks,
           misses, lock_seen, dec_in, dec_out, smooth_log, loop_alive,
           wait_start_time, latency_cache, latency_log,
           last_milestone_notification, preview_active, hotkey_alive, shutdown,
           line_moving_history, line_seen >>

\* the wait for the sell ends (lines 1669-1680) and the iteration runs to its
\* end: in state "move" neither the click scheduler nor the dig completion
\* acts, and the result is published (lines 1956-2008)
SellWaitEnd ==
    /\ loop_wait
    /\ SellWaitOver(is_selling, running, clock - wait_start_time)
    /\ loop_wait' = FALSE
    /\ results_queue' = Publish(results_queue, FALSE)
    /\ frame_log' = [frame_log EXCEPT !.queue_before = results_queue,
                                      !.published = Publishes(results_queue, FALSE)]
    /\ UNCHANGED << walk_alive, walk_moving, walk_log,
                    is_selling, sell_thread >>
    /\ UNCHANGED << clock, game_fps, auto_walk_enabled, auto_sell_on,
           running, startup_time, click_lock, blind_until, dig_count,
           frames_since_last_zone_detection, smoothed_zone_x, smoothed_zone_w,
           is_color_locked, locked_color_hsv, locked_color_hex, is_low_sat_lock,
           target_engaged,
           auto_walk_state, move_completed_time, wait_for_target_start,
           current_step_click_enabled, dig_completed_time, target_disengaged_time,
           pending_auto_sell, click_retry_count, click_delay,
           delayed_clicks, instant_clicks,
           last_sched_click, diseng_since, expiries, retry_clicks,
           misses, lock_seen, dec_in, dec_out, smooth_log, loop_alive,
           wait_start_time, latency_cache, latency_log,
           last_milestone_notification, preview_active, hotkey_alive, shutdown,
           line_moving_history, line_seen >>

\* update_gui_from_queue (lines 930-1010): get_nowait on the GUI thread
Drain ==
    /\ results_queue > 0
    /\ results_queue' = results_queue - 1
    /\ UNCHANGED << walk_alive, walk_moving, walk_log,
                    is_selling, sell_thread, loop_wait >>
    /\ UNCHANGED << clock, game_fps, auto_walk_enabled, auto_sell_on,
           running, startup_time, click_lock, blind_until, dig_count,
           frames_since_last_zone_detection, smoothed_zone_x, smoothed_zone_w,
           is_color_locked, locked_color_hsv, locked_color_hex, is_low_sat_lock,
           target_engaged,
           auto_walk_state, move_completed_time, wait_for_target_start,
           current_step_click_enabled, dig_completed_time, target_disengaged_time,
           pending_auto_sell, click_retry_count, click_delay,
           delayed_clicks, instant_clicks,
           frame_log, last_sched_click, diseng_since, expiries, retry_clicks,
           misses, lock_seen, dec_in, dec_out, smooth_log, loop_alive,
           wait_start_time, latency_cache, latency_log,
           last_milestone_notification, preview_active, hotkey_alive, shutdown,
           line_moving_history, line_seen >>

\* everything but the target fps
but_fps ==
    << clock, auto_walk_enabled, auto_sell_on,
       running, startup_time, click_lock, blind_until, dig_count,
       frames_since_last_zone_detection, smoothed_zone_x, smoothed_zone_w,
       is_color_locked, locked_color_hsv, locked_color_hex, is_low_sat_lock,
       target_engaged, is_selling,
       auto_walk_state, move_completed_time, wait_for_target_start,
       current_step_click_enabled, dig_completed_time, target_disengaged_time,
       pending_auto_sell, click_retry_count, click_delay, walk_alive,
       delayed_clicks, instant_clicks,
       frame_log, last_sched_click, diseng_since, expiries, retry_clicks,
       misses, lock_seen, dec_in, dec_out, more >>

\* the user changes the target_fps parameter; the loop reads it at the top
\* of every iteration (line 1217)
SetTargetFps(fps) ==
    /\ fps # game_fps
    /\ game_fps' = fps
    /\ UNCHANGED but_fps

\* what the shutdown leaves alone
but_shutdown ==
    << clock, game_fps, auto_walk_enabled, auto_sell_on,
       startup_time, click_lock, blind_until, dig_count,
       frames_since_last_zone_detection, smoothed_zone_x, smoothed_zone_w,
       is_color_locked, locked_color_hsv, locked_color_hex, is_low_sat_lock,
       target_engaged, is_selling,
       auto_walk_state, move_completed_time, wait_for_target_start,
       current_step_click_enabled, dig_completed_time, target_disengaged_time,
       pending_auto_sell, click_retry_count, click_delay, walk_alive,
       delayed_clicks, instant_clicks,
       frame_log, last_sched_click, diseng_since, expiries, retry_clicks,
       misses, lock_seen, dec_in, dec_out, smooth_log,
       loop_wait, wait_start_time, results_queue,
       sell_thread, walk_moving, walk_log, latency_cache, latency_log,
       last_milestone_notification, line_moving_history, line_seen >>

\* on_closing (lines 279-300), on the GUI thread: both flags are cleared and
\* _check_shutdown is scheduled
OnClosing ==
    /\ shutdown = "none"
    /\ preview_active' = FALSE
    /\ running' = FALSE
    /\ shutdown' = "closing"
    /\ UNCHANGED << loop_alive, hotkey_alive, but_shutdown >>

\* run_main_loop finds `while self.preview_active` false (line 1197) and
\* returns
LoopExit ==
    /\ loop_alive /\ ~loop_wait
    /\ ~preview_active
    /\ loop_alive' = FALSE
    /\ UNCHANGED << running, preview_active, hotkey_alive, shutdown,
                    but_shutdown >>

\* hotkey_listener finds `while self.preview_active` false (lines 406-409)
HotkeyExit ==
    /\ hotkey_alive
    /\ ~preview_active
    /\ hotkey_alive' = FALSE
    /\ UNCHANGED << running, preview_active, loop_alive, shutdown,
                    but_shutdown >>

\* hotkey_alive or main_loop_alive (lines 303-305)
ThreadsAlive_wrong(hotkey, main_loop) == hotkey
ThreadsAlive(hotkey, main_loop) == hotkey \/ main_loop

\* _check_shutdown (lines 302-308), every 100 ms: it schedules itself again
\* while a thread is alive, else _perform_final_cleanup (lines 310-343) runs
CheckShutdown ==
    /\ shutdown = "closing"
    /\ IF ThreadsAlive(hotkey_alive, loop_alive)
       THEN UNCHANGED shutdown
       ELSE shutdown' = "cleaned"
    /\ UNCHANGED << running, preview_active, loop_alive, hotkey_alive,
                    but_shutdown >>

\* root.after(500, self.perform_initial_latency_measurement) (line 110): the
\* first use of the cache
LatencyInitial(lat, ok) ==
    /\ latency_log.op = "none"
    /\ \E r \in { InitialLatencyMeasurement(latency_cache, clock + Epoch, lat, ok) } :
         /\ latency_cache' = r.cache
         /\ latency_log' = LatencyLogged("initial", latency_cache, clock + Epoch,
                                         lat, r)
    /\ UNCHANGED << clock, but_latency >>

\* get_param("system_latency") (lines 541-542) outside the loop
LatencyRead(lat) ==
    /\ \E r \in { GetCachedSystemLatency(latency_cache, clock + Epoch, lat) } :
         /\ latency_cache' = r.cache
         /\ latency_log' = LatencyLogged("get", latency_cache, clock + Epoch,
                                         lat, r)
    /\ UNCHANGED << clock, but_latency >>

\* force_latency_remeasurement (lines 265-271)
LatencyForce(lat) ==
    /\ \E r \in { ForceLatencyRemeasurement(latency_cache, clock + Epoch, lat) } :
         /\ latency_cache' = r.cache
         /\ latency_log' = LatencyLogged("force", latency_cache, clock + Epoch,
                                         lat, r)
    /\ UNCHANGED << clock, but_latency >>

(***************************************************************************)
(* Initial state (DigTool.__init__, lines 111-166, and the locals of       *)
(* run_main_loop, lines 1177-1195) and the specifications                  *)
(***************************************************************************)
NoLog ==
    [from |-> "none", mask |-> "none", locked_before |-> FALSE, hsv_before |-> NoColor,
     evaluated |-> FALSE, in_window |-> FALSE, sched |-> "none", held |-> FALSE,
     blocked |-> FALSE, blinded |-> FALSE, walk_click |-> "none",
     walk_delay |-> None, walk_started |-> FALSE, expired |-> FALSE,
     gave_up |-> FALSE, dug |-> FALSE, dig_inc |-> 0, diseng_for |-> None,
     pending_before |-> FALSE, pending_cleared |-> "none", stale |-> FALSE,
     stop_at |-> "none", run_walk |-> FALSE, run_sched |-> FALSE, walk_tasks |-> FALSE, sched_tasks |-> FALSE,
     sched_task |-> "none", guard |-> NoGuard, milestone |-> NoMilestone,
     waits |-> FALSE, queue_before |-> 0, step |-> NoStep, zone |-> NoZoneLog,
     line |-> NoLine, detect |-> NoDetect,
     published |-> FALSE]

\* runSet = {TRUE}: the state right after the first start of the bot
InitFull(fpsSet, walkSet, runSet, sellSet, latSet) ==
    /\ clock = Tick
    /\ latency_cache \in latSet
    /\ latency_log = NoLatencyLog
    /\ game_fps \in fpsSet
    /\ auto_walk_enabled \in walkSet
    /\ auto_sell_on \in sellSet
    /\ running \in runSet
    /\ startup_time = IF running THEN clock ELSE None
    /\ click_lock = FALSE
    /\ blind_until = 0
    /\ dig_count = 0
    /\ frames_since_last_zone_detection = 0
    /\ smoothed_zone_x = None
    /\ smoothed_zone_w = None
    /\ is_color_locked = FALSE
    /\ locked_color_hsv = NoColor
    /\ locked_color_hex = NoColor
    /\ is_low_sat_lock = FALSE
    /\ target_engaged = FALSE
    /\ is_selling = FALSE
    /\ auto_walk_state = "move"
    /\ move_completed_time = 0
    /\ wait_for_target_start = 0
    /\ current_step_click_enabled = TRUE
    /\ dig_completed_time = 0
    /\ target_disengaged_time = 0
    /\ pending_auto_sell = FALSE
    /\ click_retry_count = 0
    /\ click_delay = 0
    /\ walk_alive = FALSE
    /\ delayed_clicks = 0
    /\ instant_clicks = 0
    /\ frame_log = NoLog
    /\ last_sched_click = None
    /\ diseng_since = None
    /\ expiries = 0
    /\ retry_clicks = 0
    /\ misses = 0
    /\ lock_seen = FALSE
    /\ dec_in = << >>
    /\ dec_out = NoDecision
    /\ smooth_log = NoSmooth
    /\ loop_alive = TRUE
    /\ loop_wait = FALSE
    /\ wait_start_time = 0
    /\ results_queue = 0
    /\ sell_thread = "none"
    /\ walk_moving = FALSE
    /\ walk_log = NoWalk
    /\ line_moving_history = << >>
    /\ line_seen = << >>
    /\ last_milestone_notification = 0
    /\ preview_active = TRUE
    /\ hotkey_alive = TRUE
    /\ shutdown = "none"

\* the latency the initial measurement found, as every line input carries it
MeasuredAtStart == [cached |-> 25, mtime |-> Epoch, measured |-> 25]

InitWith(fpsSet, walkSet, runSet, sellSet) ==
    InitFull(fpsSet, walkSet, runSet, sellSet, {MeasuredAtStart})

\* the inputs of the concurrent specification
TheZone == [x |-> 8000, w |-> 4000]
TheColor == << 30, 200, 200 >>
WalkSteps == { [click |-> TRUE, duration |-> walk_duration],
               [click |-> FALSE, duration |-> walk_duration] }
Config == [prediction_enabled |-> TRUE, prediction_confidence_threshold |-> 800,
           zone_smoothing_factor |-> 1000, line_exclusion_radius |-> 10,
           use_color_picker_detection |-> FALSE, picked_color_rgb |-> << >>,
           use_otsu_detection |-> FALSE, otsu_adaptive_area |-> FALSE,
           sell_every_x_digs |-> sell_every_x_digs,
           milestone_interval |-> 0]
\* line outside the sweet spot and still; line on the center; line left of the
\* sweet spot and approaching, predicted on the center in 50 ms
Lines ==
    { [line_pos |-> 50, velocity |-> 0, predicted_pos |-> 50 * PosUnit,
       prediction_time |-> 0, velocity_confidence |-> 1000, latency |-> 25, pct |-> 50],
      [line_pos |-> 100, velocity |-> 0, predicted_pos |-> 100 * PosUnit,
       prediction_time |-> 0, velocity_confidence |-> 1000, latency |-> 25, pct |-> 50],
      [line_pos |-> 80, velocity |-> 400, predicted_pos |-> 100 * PosUnit,
       prediction_time |-> 50, velocity_confidence |-> 1000, latency |-> 25, pct |-> 50] }

Init == InitWith({60}, BOOLEAN, {FALSE}, {FALSE})

Frame ==
    \E eng \in BOOLEAN, d \in Lines, dir \in WalkSteps :
        Iterate(TheZone, TheColor, eng, d, dir, Config, NoRec, Calm)

Tock == Advance(1, MaxTicks)

Next ==
    \/ Frame
    \/ Tock
    \/ Toggle
    \/ ClickTaskDone
    \/ InstantClickDone
    \/ WalkBegin(FALSE)
    \/ WalkDone(TRUE, FALSE)

Spec == Init /\ [][Next]_vars

(***************************************************************************)
(* The auto-walk state machine over a long horizon: the scheduler gets a   *)
(* line outside the sweet spot, so every click is one of the state machine.*)
(***************************************************************************)
FarLine == { d \in Lines : d.line_pos = 50 }
ClickSteps == { dir \in WalkSteps : dir.click }

InitRetry == InitWith({60}, {TRUE}, {TRUE}, {FALSE})

FrameRetry ==
    \E eng \in BOOLEAN, d \in FarLine, dir \in WalkSteps :
        Iterate(TheZone, TheColor, eng, d, dir, Config, NoRec, Calm)

TockRetry == Advance(RetryStride, MaxRetryTicks)

NextRetry ==
    \/ FrameRetry
    \/ TockRetry
    \/ Toggle
    \/ ClickTaskDone
    \/ WalkBegin(FALSE)
    \/ WalkDone(TRUE, FALSE)

SpecRetry == InitRetry /\ [][NextRetry]_vars

(***************************************************************************)
(* Direct clicks one blind period apart whose threads are slow to end: the *)
(* bot runs without auto-walk and the target is engaged.                   *)
(***************************************************************************)
InitBurst == InitWith({60}, {FALSE}, {TRUE}, {FALSE})

FrameBurst ==
    \E d \in Lines, dir \in ClickSteps :
        Iterate(TheZone, TheColor, TRUE, d, dir, Config, NoRec, Calm)

TockBurst == Advance(2, MaxBurstTicks)

NextBurst ==
    \/ FrameBurst
    \/ TockBurst
    \/ ClickTaskDone
    \/ InstantClickDone

SpecBurst == InitBurst /\ [][NextBurst]_vars

(***************************************************************************)
(* Zone tracking alone: the bot is stopped, the preview loop still tracks  *)
(* the zone.                                                               *)
(***************************************************************************)
Zones == { NoZone, TheZone, [x |-> 20000, w |-> 6000] }
Colors == { TheColor, << 10, 20, 180 >> }
GoodHex == << "#", "1", "a", "2", "B", "3", "c" >>
BadHex == << "1", "2", "g", "4", "5", "6" >>
ShortHex == << "#", "f", "f", "f" >>
Configs == { Config, [Config EXCEPT !.zone_smoothing_factor = 500] }
DetectConfigs ==
    { [Config EXCEPT !.use_otsu_detection = TRUE, !.otsu_adaptive_area = TRUE] }
      \cup { [Config EXCEPT !.use_color_picker_detection = TRUE,
                            !.picked_color_rgb = c] :
                 c \in { GoodHex, BadHex, ShortHex } }

InitZone == InitWith({30, 40, 60}, {FALSE}, {FALSE}, {FALSE})

FrameZone ==
    \E rz \in Zones, hsv \in Colors, d \in FarLine, dir \in ClickSteps, prm \in Configs :
        Iterate(rz, hsv, FALSE, d, dir, prm, NoRec, Calm)

\* the other detection strategies, on one candidate
FrameDetect ==
    \E rz \in { NoZone, TheZone }, d \in FarLine, dir \in ClickSteps,
       prm \in DetectConfigs :
        Iterate(rz, TheColor, FALSE, d, dir, prm, NoRec, Calm)

NextZone ==
    \/ FrameZone
    \/ FrameDetect

SpecZone == InitZone /\ [][NextZone]_vars

(***************************************************************************)
(* The click decision over a wide range of line, velocity and prediction   *)
(* values: the bot runs without auto-walk and the target is engaged.       *)
(***************************************************************************)
WideLines ==
    [line_pos : {80, 95, 100, 120},
     velocity : {-400, 0, 400},
     predicted_pos : {100 * PosUnit, 104 * PosUnit, 112 * PosUnit},
     prediction_time : {0, 20, 50},
     velocity_confidence : {500, 1000},
     latency : {25},
     pct : {50}]
DecideConfigs == { Config, [Config EXCEPT !.prediction_enabled = FALSE] }

InitDecide == InitWith({60, 120}, {FALSE}, {TRUE}, {FALSE})

FrameDecide ==
    \E d \in WideLines, dir \in ClickSteps, prm \in DecideConfigs :
        Iterate(TheZone, TheColor, TRUE, d, dir, prm,
                [NoRec EXCEPT !.decision = TRUE], Calm)

TockDecide == Advance(1, MaxDecideTicks)

NextDecide ==
    \/ FrameDecide
    \/ TockDecide
    \/ ClickTaskDone
    \/ InstantClickDone

SpecDecide == InitDecide /\ [][NextDecide]_vars


(***************************************************************************)
(* The zone smoother alone: raw candidates near and far from the smoothed  *)
(* zone, smoothing factors from 0 to above 1                               *)
(***************************************************************************)
SmoothZones ==
    { TheZone, [x |-> 8300, w |-> 4100], [x |-> 20000, w |-> 6000],
      [x |-> 7999, w |-> 3000] }
SmoothFactors == { 0, 5, 10, 500, 950, 1000, 1500 }

InitSmooth == InitWith({60}, {FALSE}, {FALSE}, {FALSE})

FrameSmooth ==
    \E rz \in SmoothZones, a \in SmoothFactors, d \in FarLine, dir \in ClickSteps :
        Iterate(rz, TheColor, FALSE, d, dir,
                [Config EXCEPT !.zone_smoothing_factor = a],
                [NoRec EXCEPT !.smoothing = TRUE], Calm)

NextSmooth == FrameSmooth

SpecSmooth == InitSmooth /\ [][NextSmooth]_vars

(***************************************************************************)
(* Auto-walk with auto-sell: the bot runs, digs complete, sells are        *)
(* triggered, skipped or time out, the GUI thread stops and restarts the   *)
(* bot and drains the result channel.                                      *)
(***************************************************************************)
SellEvery == {0, 1}
SellConfigs == { [Config EXCEPT !.sell_every_x_digs = n] : n \in SellEvery }
StopPoints == {"none", "walk", "sched"}
Interference == [sell_ready : BOOLEAN, stop_at : StopPoints, bottom_scan : {-1}]

InitSell == InitWith({60}, {TRUE}, {TRUE}, {TRUE})

FrameSell ==
    \E eng \in BOOLEAN, d \in FarLine, dir \in ClickSteps, prm \in SellConfigs,
       env \in Interference :
        Iterate(TheZone, TheColor, eng, d, dir, prm, NoRec, env)

\* time passes by one tick, or by a long stall, or, while the loop waits
\* for a sell, up to the end of the wait
TockSell ==
    \/ Advance(1, MaxSellTicks)
    \/ Advance(StallStride, MaxStallTicks)
    \/ /\ loop_wait
       /\ Pass(wait_start_time + auto_sell_max_wait_time - clock,
               SellHorizon * Tick)

NextSell ==
    \/ FrameSell
    \/ TockSell
    \/ running /\ Toggle
    \/ ClickTaskDone
    \/ WalkBegin(FALSE)
    \/ WalkDone(TRUE, FALSE)
    \/ SellBegin
    \/ SellEnd
    \/ SellWaitEnd

SpecSell == InitSell /\ [][NextSell]_vars

(***************************************************************************)
(* The same without interference inside an iteration: every due sell is    *)
(* ready, the GUI thread drains the result channel, and the loop thread    *)
(* and the clock keep running.                                             *)
(***************************************************************************)
QuietConfigs == { prm \in SellConfigs : prm.sell_every_x_digs = 1 }

FrameQuiet ==
    \E eng \in BOOLEAN, d \in FarLine, dir \in ClickSteps, prm \in QuietConfigs :
        Iterate(TheZone, TheColor, eng, d, dir, prm, NoRec,
                [Calm EXCEPT !.sell_ready = TRUE])

NextQuiet ==
    \/ FrameQuiet
    \/ TockSell
    \/ running /\ Toggle
    \/ ClickTaskDone
    \/ WalkBegin(FALSE)
    \/ WalkDone(TRUE, FALSE)
    \/ SellBegin
    \/ SellEnd
    \/ SellWaitEnd
    \/ Drain

\* the waiting loop polls every 0.1 s and time passes
SpecQuiet ==
    InitSell /\ [][NextQuiet]_vars /\ WF_vars(SellWaitEnd) /\ WF_vars(TockSell)

(***************************************************************************)
(* The walk thread beside sells and stops: its movement step succeeds or   *)
(* fails, and its outcome is recorded.                                     *)
(***************************************************************************)
NextWalk ==
    \/ FrameQuiet
    \/ TockSell
    \/ running /\ Toggle
    \/ ClickTaskDone
    \/ WalkBegin(TRUE)
    \/ \E ok \in BOOLEAN : WalkDone(ok, TRUE)
    \/ SellBegin
    \/ SellEnd
    \/ SellWaitEnd

SpecWalk == InitSell /\ [][NextWalk]_vars

(***************************************************************************)
(* Stopping the bot in the middle of an iteration, with and without        *)
(* auto-walk: the scheduler gets lines inside and outside the sweet spot,  *)
(* and the walk thread's outcome is recorded.                              *)
(***************************************************************************)
Stops == { env \in Interference : ~env.sell_ready }

InitStop == InitWith({60}, BOOLEAN, {TRUE}, {FALSE})

FrameStop ==
    \E eng \in BOOLEAN, d \in Lines, dir \in ClickSteps, env \in Stops :
        Iterate(TheZone, TheColor, eng, d, dir, Config, NoRec, env)

TockStop == Advance(1, MaxStopTicks)

NextStop ==
    \/ FrameStop
    \/ TockStop
    \/ Toggle
    \/ ClickTaskDone
    \/ InstantClickDone
    \/ WalkBegin(TRUE)
    \/ \E ok \in BOOLEAN : WalkDone(ok, TRUE)

SpecStop == InitStop /\ [][NextStop]_vars

(***************************************************************************)
(* The latency cache over ten minutes: the bot runs without auto-walk, the *)
(* target is engaged and the line stays outside the sweet spot, so every   *)
(* frame evaluates the click decision and reads the latency.               *)
(***************************************************************************)
Latencies == {25, 40}
LatencyLines == { [d EXCEPT !.latency = l] : d \in FarLine, l \in Latencies }

InitLatency == InitFull({60}, {FALSE}, {TRUE}, {FALSE}, {NoLatency})

FrameLatency ==
    \E d \in LatencyLines, dir \in ClickSteps :
        Iterate(TheZone, TheColor, TRUE, d, dir, Config,
                [NoRec EXCEPT !.latency = TRUE], Calm)

TockLatency ==
    \/ Pass(LatencyStride, ShortHorizon)
    \/ Pass(LongStride, LatencyHorizon)

NextLatency ==
    \/ FrameLatency
    \/ TockLatency
    \/ \E lat \in Latencies, ok \in BOOLEAN : LatencyInitial(lat, ok)
    \/ \E lat \in Latencies : LatencyRead(lat)
    \/ \E lat \in Latencies : LatencyForce(lat)

SpecLatency == InitLatency /\ [][NextLatency]_vars

(***************************************************************************)
(* Target engagement: the loop keeps the list of line positions; the line  *)
(* is lost, found again or moves by 49 or 50 pixels, a few times per run.  *)
(***************************************************************************)
EngagePositions == {-1, 200, 249, 250}
EngageLines ==
    { [d EXCEPT !.line_pos = p, !.predicted_pos = p * PosUnit] :
        d \in FarLine, p \in EngagePositions }

InitEngage == InitWith({30, 48}, {FALSE}, {TRUE}, {FALSE})

FrameEngage ==
    \E eng \in BOOLEAN, d \in EngageLines, dir \in ClickSteps :
        Iterate(TheZone, TheColor, eng, d, dir,
                [Config EXCEPT !.prediction_enabled = FALSE],
                [NoRec EXCEPT !.history = TRUE], Calm)

NextEngage ==
    \/ FrameEngage
    \/ Toggle

SpecEngage == InitEngage /\ [][NextEngage]_vars

(***************************************************************************)
(* The walk step: time passes in quarters of a second, the steps have      *)
(* their own duration or the walk_duration parameter, with or without the  *)
(* click; the target is not engaged, and the bot may be stopped.           *)
(***************************************************************************)
TimedSteps == [click : BOOLEAN, duration : {None, LongStep}]

FrameStep ==
    \E d \in FarLine, dir \in TimedSteps :
        Iterate(TheZone, TheColor, FALSE, d, dir, Config,
                [NoRec EXCEPT !.step = TRUE], Calm)

TockStep == Pass(StepStride, StepHorizon)

NextStep ==
    \/ FrameStep
    \/ TockStep
    \/ running /\ Toggle
    \/ ClickTaskDone
    \/ WalkBegin(FALSE)
    \/ WalkDone(TRUE, FALSE)

SpecStep == InitRetry /\ [][NextStep]_vars

(***************************************************************************)
(* Lock release while the bot runs without auto-walk: the target is        *)
(* engaged, the line is on or off the sweet spot, and the contour comes    *)
(* and goes.                                                               *)
(***************************************************************************)
InitRelease == InitWith({30, 60}, {FALSE}, {TRUE}, {FALSE})

FrameRelease ==
    \E rz \in { NoZone, TheZone }, d \in Lines, dir \in ClickSteps,
       prm \in { Config } \cup DetectConfigs :
        Iterate(rz, TheColor, TRUE, d, dir, prm, NoRec, Calm)

NextRelease ==
    \/ FrameRelease
    \/ Tock
    \/ ClickTaskDone
    \/ InstantClickDone

SpecRelease == InitRelease /\ [][NextRelease]_vars

(***************************************************************************)
(* The first candidate after the smoothed zone was unset: the preview loop *)
(* of the stopped bot tracks two zones that come and go, with and without  *)
(* smoothing; the smoothing steps between two releases are bounded.        *)
(***************************************************************************)
InitSnap == InitWith({30}, {FALSE}, {FALSE}, {FALSE})

FrameSnap ==
    \E rz \in Zones, d \in FarLine, dir \in ClickSteps, prm \in Configs :
        Iterate(rz, TheColor, FALSE, d, dir, prm,
                [NoRec EXCEPT !.zone = TRUE, !.smoothing = TRUE], Calm)

SpecSnap == InitSnap /\ [][FrameSnap]_vars

(***************************************************************************)
(* The two line scans: the bot runs without auto-walk on a zone it tracks; *)
(* the full-frame scan finds the line on the sweet spot, off it, or not at *)
(* all, and then the scan of the bottom of the frame finds it or not.      *)
(***************************************************************************)
ScanPositions == {-1, 100, 150}
ScanLines ==
    { [d EXCEPT !.line_pos = p, !.predicted_pos = p * PosUnit] :
        d \in FarLine, p \in ScanPositions }

InitScan == InitWith({30}, {FALSE}, {TRUE}, {FALSE})

FrameScan ==
    \E eng \in BOOLEAN, d \in ScanLines, bottom \in ScanPositions,
       dir \in ClickSteps :
        /\ d.line_pos # -1 => bottom = -1
        /\ Len(line_seen) < MaxScanFrames
        /\ Iterate(TheZone, TheColor, eng, d, dir, Config,
                   [NoRec EXCEPT !.history = TRUE, !.line = TRUE],
                   [Calm EXCEPT !.bottom_scan = bottom])

NextScan ==
    \/ FrameScan
    \/ Tock
    \/ InstantClickDone

SpecScan == InitScan /\ [][NextScan]_vars

(***************************************************************************)
(* The detection strategy: every combination of the strategy switches,     *)
(* with the picked colour unset, blank, well-formed, and malformed in the  *)
(* ways int(..., 16) rejects or accepts.                                   *)
(***************************************************************************)
SignedHex == << "+", "1", "2", "3", "4", "5" >>
PrefixedHex == << "#", "0", "x", "1", "2", "3", "4" >>
SpacedHex == << "1", "_", "2", "3", "4", "5" >>
Blank == << " ", " " >>
PickedColors ==
    { << >>, Blank, GoodHex, BadHex, ShortHex, SignedHex, PrefixedHex, SpacedHex }
StrategyConfigs ==
    { [Config EXCEPT !.use_color_picker_detection = cp,
                     !.picked_color_rgb = c,
                     !.use_otsu_detection = otsu,
                     !.otsu_adaptive_area = ad] :
        cp \in BOOLEAN, c \in PickedColors, otsu \in BOOLEAN, ad \in BOOLEAN }

FrameStrategy ==
    \E rz \in { NoZone, TheZone }, d \in FarLine, dir \in ClickSteps,
       prm \in StrategyConfigs :
        Iterate(rz, TheColor, FALSE, d, dir, prm,
                [NoRec EXCEPT !.detect = TRUE], Calm)

SpecStrategy == InitSnap /\ [][FrameStrategy]_vars

(***************************************************************************)
(* The click scheduler beside the auto-walk state machine and a sell: the  *)
(* line is lost, off the sweet spot, on it, or approaching it, in every    *)
(* state of the state machine; the sell thread may be slow to begin.       *)
(***************************************************************************)
LostLine == { [d EXCEPT !.line_pos = -1] : d \in FarLine }

FrameGuard ==
    \E eng \in BOOLEAN, d \in Lines \cup LostLine, dir \in ClickSteps,
       prm \in QuietConfigs :
        Iterate(TheZone, TheColor, eng, d, dir, prm,
                [NoRec EXCEPT !.guard = TRUE],
                [Calm EXCEPT !.sell_ready = TRUE])

TockGuard == Advance(2, MaxGuardTicks)

NextGuard ==
    \/ FrameGuard
    \/ TockGuard
    \/ ClickTaskDone
    \/ InstantClickDone
    \/ WalkBegin(FALSE)
    \/ WalkDone(TRUE, FALSE)
    \/ SellBegin
    \/ SellEnd
    \/ SellWaitEnd

SpecGuard == InitSell /\ [][NextGuard]_vars

(***************************************************************************)
(* Milestone notifications over several runs: auto-walk digs, the bot is   *)
(* stopped and started again, a webhook is set and every dig is a          *)
(* milestone.                                                              *)
(***************************************************************************)
MilestoneConfigs == { [Config EXCEPT !.milestone_interval = 1] }

FrameMilestone ==
    \E eng \in BOOLEAN, d \in FarLine, dir \in ClickSteps,
       prm \in MilestoneConfigs :
        Iterate(TheZone, TheColor, eng, d, dir, prm,
                [NoRec EXCEPT !.milestone = TRUE], Calm)

NextMilestone ==
    \/ FrameMilestone
    \/ TockRetry
    \/ Toggle
    \/ ClickTaskDone
    \/ WalkBegin(FALSE)
    \/ WalkDone(TRUE, FALSE)

SpecMilestone == InitRetry /\ [][NextMilestone]_vars

(***************************************************************************)
(* Closing the window while the bot digs, walks and sells: the GUI thread  *)
(* runs on_closing at any moment, also while the loop waits for a sell,    *)
(* and the toggle hotkey still works until the cleanup. The two thread     *)
(* loops, the 100 ms timer of _check_shutdown and the 0.1 s poll of the    *)
(* sell wait keep running.                                                 *)
(***************************************************************************)
\* time passes by two ticks, or, while the loop waits for a sell, up to the
\* end of the wait
TockClose ==
    \/ Advance(2, MaxCloseTicks)
    \/ /\ loop_wait
       /\ Pass(wait_start_time + auto_sell_max_wait_time - clock,
               SellHorizon * Tick)

NextClose ==
    \/ FrameQuiet
    \/ TockClose
    \/ shutdown = "closing" /\ Toggle
    \/ ClickTaskDone
    \/ WalkBegin(FALSE)
    \/ WalkDone(TRUE, FALSE)
    \/ SellBegin
    \/ SellEnd
    \/ SellWaitEnd
    \/ OnClosing
    \/ LoopExit
    \/ HotkeyExit
    \/ CheckShutdown

\* the sell wait polls its condition every 0.1 s, far more often than a key
\* can toggle the bot: it leaves the wait if the condition is false again
\* and again (strong fairness); the other loops and timers need only that
\* their step stays possible
SpecClose ==
    /\ InitSell /\ [][NextClose]_vars
    /\ SF_vars(SellWaitEnd) /\ WF_vars(TockClose)
    /\ WF_vars(LoopExit) /\ WF_vars(HotkeyExit) /\ WF_vars(CheckShutdown)

(***************************************************************************)
(* Target engagement while the user changes the target fps between frames: *)
(* 48 fps (a window of 12 samples) and 30 fps (10 samples).                *)
(***************************************************************************)
FpsValues == {30, 48}

InitFps == InitWith({48}, {FALSE}, {TRUE}, {FALSE})

NextFps ==
    \/ FrameEngage
    \/ \E fps \in FpsValues : SetTargetFps(fps)

SpecFps == InitFps /\ [][NextFps]_vars

(***************************************************************************)
(* Claims                                                                  *)
(***************************************************************************)

\* C1: at most one click task started by the loop (a perform_click task or an
\* _instant_click thread) is in flight at any time.
C1_OneClickInFlight == delayed_clicks + instant_clicks <= 1

\* C2: the loop never starts a click task (scheduler click, click_to_start
\* click, retry click) at a moment at which click_lock is held.
C2_NoDispatchWhileHeld == ~frame_log.held

\* an iteration reached a dispatch with the token held by a click in flight,
\* and started nothing
C2_Witness == frame_log.blocked /\ delayed_clicks = 1 /\ click_lock

\* C3: no click decision is evaluated in an iteration whose time lies below
\* t + post_click_blindness, t the time of the last scheduler click.
C3_NoDecisionInBlindWindow == ~frame_log.in_window

\* an iteration inside the window, otherwise free to click, evaluated nothing
C3_Witness == frame_log.blinded /\ ~frame_log.evaluated /\ clock > last_sched_click

\* C4 (as amended): an iteration that has seen the target disengaged, in
\* digging with the bot running, for strictly more than 1500 ms completes the
\* dig: the state becomes move and dig_count grows by exactly one; and
\* dig_count grows in no other way.
C4_DigCompletes ==
    /\ (frame_log.diseng_for # None /\ frame_log.diseng_for > disengage_time)
          => (frame_log.dug /\ auto_walk_state = "move")
    /\ frame_log.dug => (frame_log.dig_inc = 1 /\ auto_walk_state = "move")
    /\ ~frame_log.dug => frame_log.dig_inc = 0

C4_Witness == frame_log.dug /\ frame_log.diseng_for > disengage_time /\ dig_count = 1

\* C4 as stated: disengagement sustained for at least 1500 ms completes the dig
C4_Original ==
    (frame_log.diseng_for # None /\ frame_log.diseng_for >= disengage_time)
        => (frame_log.dug /\ auto_walk_state = "move")

\* C5 (as amended): the first two expiries of the wait window each make one
\* retry and stay in wait_for_target; the third returns to move with the
\* retry counter 0; neither the counter nor the retry clicks of a step exceed 2.
C5_ThirdExpiryGivesUp ==
    /\ click_retry_count <= max_click_retries
    /\ retry_clicks <= max_click_retries
    /\ expiries <= max_click_retries + 1
    /\ (frame_log.expired /\ expiries <= max_click_retries)
          => (auto_walk_state = "wait_for_target" /\ click_retry_count = expiries)
    /\ (frame_log.expired /\ expiries = max_click_retries + 1)
          => (frame_log.gave_up /\ auto_walk_state = "move" /\ click_retry_count = 0)

C5_Witness ==
    frame_log.gave_up /\ expiries = 3 /\ retry_clicks = 2 /\ auto_walk_state = "move"

\* C5 as stated: once the window has been exceeded twice the state is move
\* and the retry counter 0
C5_Original ==
    (frame_log.expired /\ expiries = 2)
        => (auto_walk_state = "move" /\ click_retry_count = 0)

\* floor and round of targetFps * 0.167, at least 5
C6_KFloor == IF (game_fps * 167) \div 1000 > 5 THEN (game_fps * 167) \div 1000 ELSE 5
C6_KRound ==
    IF (game_fps * 167 + 500) \div 1000 > 5 THEN (game_fps * 167 + 500) \div 1000 ELSE 5

\* C6 (as amended): with K = max(floor(targetFps * 0.167), 5), an acquired
\* lock is still held after K consecutive frames without an accepted contour
\* and is released at frame K + 1.
C6_ReleasedAtKPlusOne == lock_seen => (is_color_locked <=> misses <= C6_KFloor)

C6_Witness ==
    /\ lock_seen /\ game_fps = 60 /\ misses = C6_KFloor + 1
    /\ ~is_color_locked /\ locked_color_hsv = NoColor

\* C6 as stated: with K = max(round(targetFps * 0.167), 5), held after K - 1
\* such frames and released at the K-th
C6_Original ==
    lock_seen => /\ misses = C6_KRound - 1 => is_color_locked
                 /\ misses = C6_KRound => ~is_color_locked

\* C7: at 60 fps, 12 consecutive frames without a qualifying contour end with
\* the lock released.
C7_TwelveMissesAt60 ==
    (game_fps = 60 /\ lock_seen /\ misses >= 12)
        => (~is_color_locked /\ locked_color_hsv = NoColor /\ locked_color_hex = NoColor)

C7_Witness == game_fps = 60 /\ lock_seen /\ misses = 12 /\ ~is_color_locked

\* the line of the last decision, and whether it is inside the sweet spot
DecLine == dec_in.d.line_pos * PosUnit
DecLineIn == dec_in.ss.start <= DecLine /\ DecLine <= dec_in.ss.end
DecToward ==
    \/ DecLine < dec_in.ss.center /\ dec_in.d.velocity > 0
    \/ DecLine > dec_in.ss.center /\ dec_in.d.velocity < 0

\* C8 (as amended): a decision with the line inside the sweet spot always
\* clicks; the click is immediate (delay 0) with confidence 1.0 unless a
\* predictive click qualifies in that iteration, which then is the one
\* scheduled; with the line on the center, or not moving, it is immediate.
C8_DirectUnlessPredictive ==
    (dec_out.done /\ DecLineIn)
        => /\ dec_out.should_click
           /\ ~dec_out.prediction_used
                 => (dec_out.click_delay = 0 /\ dec_out.confidence = 1000)
           /\ dec_out.prediction_used => dec_out.click_delay > 0
           /\ (DecLine = dec_in.ss.center \/ dec_in.d.velocity = 0)
                 => ~dec_out.prediction_used

\* sweet spot [90, 110], line position 100: a direct click, confidence 1.0
C8_Witness ==
    /\ dec_out.done /\ dec_in.d.line_pos = 100
    /\ dec_in.ss.start = 90 * PosUnit /\ dec_in.ss.end = 110 * PosUnit
    /\ dec_out.should_click /\ dec_out.click_delay = 0
    /\ ~dec_out.prediction_used /\ dec_out.confidence = 1000

\* C8 as stated: with the line inside the sweet spot the click is immediate
\* with confidence 1.0, whatever the prediction says
C8_Original ==
    (dec_out.done /\ DecLineIn)
        => /\ dec_out.should_click /\ dec_out.click_delay = 0
           /\ ~dec_out.prediction_used /\ dec_out.confidence = 1000

\* C9: no predictive click is scheduled when the velocity does not point
\* toward the sweet-spot center.
C9_NoPredictionAway ==
    (dec_out.done /\ ~DecToward)
        => (~dec_out.prediction_used /\ dec_out.click_delay = 0)

\* a decision whose prediction values would qualify, with the line moving
\* away from the center
C9_Witness ==
    /\ dec_out.done /\ ~DecToward /\ dec_in.d.velocity # 0
    /\ DecLine # dec_in.ss.center
    /\ dec_in.prm.prediction_enabled /\ dec_in.d.prediction_time = 50
    /\ dec_in.d.predicted_pos = dec_in.ss.center
    /\ dec_in.d.velocity_confidence = 1000
    /\ ~dec_out.prediction_used

\* C10: a predictive click is scheduled only with prediction enabled, a valid
\* prediction and confidence >= the fps-adjusted threshold; its delay is
\* prediction_time - system_latency * (120 / fps) * 0.8 and is positive.
C10_Delay ==
    dec_in.d.prediction_time * 1000 - (dec_in.d.latency * 120 * 800) \div game_fps

C10_PredictiveOnlyIf ==
    dec_out.done
        => /\ dec_out.prediction_used
                 => /\ dec_in.prm.prediction_enabled
                    /\ dec_in.d.prediction_time > 0
                    /\ dec_out.confidence
                          >= (dec_in.prm.prediction_confidence_threshold
                                 * FpsPow(game_fps)) \div 1000000
                    /\ dec_out.click_delay = C10_Delay
                    /\ dec_out.click_delay > 0
           /\ C10_Delay <= 0 => ~dec_out.prediction_used

C10_Witness ==
    /\ dec_out.done /\ dec_out.prediction_used
    /\ dec_out.click_delay = 10000 /\ game_fps = 60

\* C11: one smoothing step moves the smoothed position and width by at most
\* max(a, a + 0.1) * |raw - smoothed| for the configured factor a >= 0, and
\* with a = 1 the smoothed value becomes exactly the raw value.
C11_StepBound ==
    smooth_log.n > 0
        => /\ Abs(smooth_log.num_x - 1000 * smooth_log.old_x)
                 <= Max(smooth_log.alpha, smooth_log.alpha + 100)
                       * Abs(smooth_log.raw_x - smooth_log.old_x)
           /\ Abs(smooth_log.num_w - 1000 * smooth_log.old_w)
                 <= Max(smooth_log.alpha, smooth_log.alpha + 100)
                       * Abs(smooth_log.raw_w - smooth_log.old_w)
           /\ smooth_log.new_x = smooth_log.num_x \div 1000
           /\ smooth_log.new_w = smooth_log.num_w \div 1000
           /\ smooth_log.alpha = 1000
                 => /\ smooth_log.new_x = smooth_log.raw_x
                    /\ smooth_log.new_w = smooth_log.raw_w

\* a far candidate at factor 0.5: the step uses 0.6, the bound is attained
C11_Witness ==
    /\ smooth_log.n > 0 /\ smooth_log.alpha = 500
    /\ smooth_log.raw_x = 20000 /\ smooth_log.old_x = 8000
    /\ smooth_log.num_x - 1000 * smooth_log.old_x = 600 * 12000
    /\ smoothed_zone_x = 15200

\* C12: there is at most one colour lock (a held lock is never replaced by
\* another colour), is_color_locked holds exactly when a locked mean HSV
\* colour is stored, and an iteration that starts locked produces its mask by
\* range matching on the locked colour and runs no detection strategy.
C12_LockInvariant ==
    /\ is_color_locked <=> locked_color_hsv # NoColor
    /\ frame_log.locked_before <=> frame_log.mask = "range"
    /\ frame_log.locked_before <=> frame_log.hsv_before # NoColor
    /\ (frame_log.locked_before /\ is_color_locked)
          => locked_color_hsv = frame_log.hsv_before
    /\ (frame_log.mask # "none" /\ ~frame_log.locked_before)
          => frame_log.mask \in { "saturation", "saturation_no_color",
                                   "saturation_fallback", "color_picker",
                                   "otsu_adaptive", "otsu_fixed" }

\* a locked iteration that accepted a contour of another colour kept its lock
C12_Witness ==
    /\ frame_log.locked_before /\ frame_log.mask = "range"
    /\ is_color_locked /\ locked_color_hsv = << 10, 20, 180 >>
    /\ misses = 0 /\ is_low_sat_lock

\* the states of the auto-walk state machine and its transitions
C13_States == { "move", "click_to_start", "wait_for_target", "digging" }
C13_Steps ==
    { << "move", "click_to_start" >>, << "click_to_start", "wait_for_target" >>,
      << "click_to_start", "move" >>, << "wait_for_target", "digging" >>,
      << "wait_for_target", "move" >>, << "digging", "move" >> }

\* C13: the auto-walk state is always one of move, click_to_start,
\* wait_for_target, digging; it is move until the first iteration; and it
\* differs from the state the last iteration started in only by one of the
\* six transitions (no other thread changes it).
C13_StateMachine ==
    /\ auto_walk_state \in C13_States
    /\ frame_log.from = "none" => auto_walk_state = "move"
    /\ frame_log.from # "none"
          => \/ frame_log.from = auto_walk_state
             \/ << frame_log.from, auto_walk_state >> \in C13_Steps

\* a step with its click disabled went from click_to_start back to move
C13_Witness ==
    /\ frame_log.from = "click_to_start" /\ auto_walk_state = "move"
    /\ ~current_step_click_enabled


\* C14: the pending-sell flag never outlives the stale-pending timeout: after
\* every processed frame a set flag belongs to a dig completed at most 10 s
\* before (with the state machine in "move"), whether or not the bot runs; and
\* a flag that an iteration cleared was cleared by the sell being triggered
\* or skipped in "move", or by the timeout.
C14_PendingCleared ==
    /\ ~frame_log.stale
    /\ pending_auto_sell =>
          /\ auto_walk_state = "move"
          /\ dig_completed_time > 0
          /\ frame_log.pending_cleared = "none"
    /\ (frame_log.pending_before /\ ~pending_auto_sell) =>
          frame_log.pending_cleared \in {"sold", "skipped", "timeout"}
    /\ frame_log.pending_cleared \in {"sold", "skipped"} =>
          frame_log.from = "move"

\* the timeout cleared the flag in a frame processed while the bot was stopped
C14_Witness ==
    /\ frame_log.pending_before /\ frame_log.pending_cleared = "timeout"
    /\ ~running /\ ~pending_auto_sell /\ frame_log.stop_at = "none"

\* C15: no configuration value aborts the frame loop: the loop thread is alive
\* after every iteration, whatever sell_every_x_digs, the picked colour and
\* the detection settings are.
C15_LoopSurvives == loop_alive

\* C16: the loop waits for a task it started only after triggering a sell,
\* and then for at most 30 s; an iteration that dispatched a click or a
\* movement step and no sell goes on without waiting, and click_lock is
\* acquired only when it is free.
C16_WaitsOnlyForSell ==
    /\ loop_wait => /\ frame_log.waits
                    /\ frame_log.pending_cleared = "sold"
                    /\ clock - wait_start_time <= auto_sell_max_wait_time
    /\ ~frame_log.waits => ~loop_wait
    /\ ~frame_log.held

\* the loop has waited the full 30 s for a sell that is still in progress
C16_Witness ==
    /\ loop_wait /\ is_selling /\ running
    /\ clock - wait_start_time = auto_sell_max_wait_time

\* C16 as stated: no dispatch makes the loop wait for the dispatched action
C16_Original == ~(loop_wait /\ is_selling /\ clock - wait_start_time >= 2 * Tick)

\* C17: the wait that follows a triggered sell always ends; while it lasts
\* it has lasted at most 30 s, the sell is in progress and the bot runs, and
\* during and right after it the state machine is in "move" with the pending
\* flag cleared.
C17_SellWaitEnds ==
    /\ [](loop_wait =>
            /\ frame_log.pending_cleared = "sold"
            /\ auto_walk_state = "move" /\ ~pending_auto_sell
            /\ dig_completed_time = 0
            /\ clock - wait_start_time <= auto_sell_max_wait_time)
    /\ [][(loop_wait /\ ~loop_wait') =>
            /\ \/ ~is_selling \/ ~running
               \/ clock - wait_start_time = auto_sell_max_wait_time
            /\ auto_walk_state' = "move" /\ ~pending_auto_sell']_vars
    /\ [][(loop_wait /\ clock' # clock) => (is_selling /\ running)]_vars
    /\ (loop_wait ~> ~loop_wait)

\* the wait ended on its 30 s limit with the sell still in progress
C17_Witness ==
    /\ ~loop_wait /\ frame_log.waits /\ is_selling /\ running
    /\ clock - wait_start_time = auto_sell_max_wait_time
    /\ auto_walk_state = "move" /\ ~pending_auto_sell

\* C18: the result channel never holds more than one result; an iteration
\* that finds the previous result still in the channel publishes nothing and
\* goes on, an iteration that finds it empty publishes, and the loop never
\* waits on the channel.
C18_SingleSlot ==
    /\ results_queue \in {0, 1}
    /\ frame_log.queue_before = 1 => ~frame_log.published
    /\ (frame_log.from # "none" /\ frame_log.queue_before = 0
           /\ loop_alive /\ ~loop_wait) => frame_log.published
    /\ loop_wait => frame_log.waits

\* the consumer had not drained the channel: the iteration dropped its result
C18_Witness ==
    /\ frame_log.from # "none" /\ frame_log.queue_before = 1
    /\ ~frame_log.published /\ results_queue = 1 /\ ~loop_wait

\* C19: an iteration that reads running as cleared at the guard of the
\* auto-walk block starts no walk thread, sell thread or state-machine click,
\* and one that reads it as cleared at the guard of the click scheduler
\* starts no scheduler click; tasks in flight are left alone.
C19_NoStartOnceStopSeen ==
    /\ ~frame_log.run_walk => ~frame_log.walk_tasks
    /\ ~frame_log.run_sched => ~frame_log.sched_tasks
    /\ frame_log.stop_at = "none" =>
          (frame_log.run_walk = frame_log.run_sched)
    /\ (frame_log.from # "none" /\ frame_log.stop_at # "none") => frame_log.run_walk

\* the bot is stopped with a walk thread in flight: the next iteration, whose
\* click_to_start click is due, starts nothing
C19_Witness ==
    /\ auto_walk_enabled /\ ~running /\ frame_log.from = "click_to_start"
    /\ frame_log.stop_at = "none" /\ ~frame_log.run_walk
    /\ ~frame_log.walk_tasks /\ ~frame_log.sched_tasks
    /\ walk_alive /\ clock >= move_completed_time

\* C19 as stated: no task is started once running is cleared, wherever the
\* stop lands inside the iteration
C19_Original ==
    /\ frame_log.stop_at = "walk" => ~frame_log.walk_tasks
    /\ frame_log.stop_at = "sched" => ~frame_log.sched_tasks

\* C20: a walk thread calls advance_walk_pattern once if its movement step
\* returned true and not at all if the step returned false or if the thread
\* gave up before moving; it gives up exactly when a sell is in progress or
\* the bot is stopped at the moment it starts.
C20_AdvanceOnlyOnSuccess ==
    /\ [](walk_log.advanced = IF walk_log.result = "succeeded" THEN 1 ELSE 0)
    /\ [][(walk_alive /\ ~walk_alive') =>
            IF walk_moving
            THEN walk_log'.result \in {"succeeded", "failed"}
            ELSE /\ walk_log'.result = "aborted"
                 /\ (is_selling \/ ~running)]_vars
    /\ [][(walk_alive /\ ~walk_moving /\ walk_moving') =>
            (~is_selling /\ running)]_vars

\* a walk thread gave up because a sell was in progress; nothing was advanced
C20_Witness ==
    /\ walk_log.result = "aborted" /\ walk_log.advanced = 0
    /\ is_selling /\ running /\ ~walk_alive
    /\ auto_walk_state = "click_to_start"

\* C21: a read of the latency that finds the last measurement at least as
\* old as the cache TTL (300 s) measures the latency again.
C21_RefreshedAfterTTL ==
    (/\ latency_log.op \in {"get", "loop"}
     /\ latency_log.age # None
     /\ latency_log.age >= latency_cache_ttl) => latency_log.measured

\* C22: after a frame the target is engaged exactly when the line was detected
\* in that frame and the last max(int(30 * fps / 120), 10) line positions seen
\* hold at least 10 samples, at least 5 of them detected, and the detected
\* ones span at least 50 pixels.
C22_Window == Max((30 * game_fps) \div 120, 10)
C22_Recent ==
    SubSeq(line_seen, Max(1, Len(line_seen) - C22_Window + 1), Len(line_seen))
C22_Detected == { i \in 1..Len(C22_Recent) : C22_Recent[i] # -1 }
C23_WalkBlockRan ==
    /\ frame_log.step.at # None
    /\ frame_log.run_walk /\ auto_walk_enabled /\ ~frame_log.step.selling

\* C23: a frame that finds the state machine in move with no sell pending and
\* no movement thread alive starts the walk step and leaves the state in
\* click_to_start with the deadline at frame time + step duration + 300 ms;
\* a frame before the deadline makes no start click and stays in
\* click_to_start; a frame that makes the start click was at or past the
\* deadline and leaves the state in wait_for_target with the wait started at
\* its frame time.
C23_MoveThenClick ==
    /\ (/\ C23_WalkBlockRan
        /\ frame_log.from = "move"
        /\ ~frame_log.pending_before
        /\ ~frame_log.step.walk_alive)
          => /\ frame_log.walk_tasks
             /\ auto_walk_state = "click_to_start"
             /\ move_completed_time =
                    frame_log.step.at + 300
                    + (IF frame_log.step.duration = None THEN walk_duration
                       ELSE frame_log.step.duration)
    /\ (/\ frame_log.step.at # None
        /\ frame_log.from = "click_to_start"
        /\ frame_log.step.at < frame_log.step.deadline)
          => /\ frame_log.walk_click = "none"
             /\ auto_walk_state = "click_to_start"
    /\ (/\ frame_log.step.at # None
        /\ frame_log.from = "click_to_start"
        /\ frame_log.walk_click = "start")
          => /\ frame_log.step.at >= frame_log.step.deadline
             /\ auto_walk_state = "wait_for_target"
             /\ wait_for_target_start = frame_log.step.at

\* the start click of a step that took 700 ms, made later than the first
\* frame at which a step of the default duration would have allowed it
C23_Witness ==
    /\ frame_log.from = "click_to_start"
    /\ frame_log.walk_click = "start"
    /\ auto_walk_state = "wait_for_target"
    /\ wait_for_target_start = frame_log.step.at
    /\ frame_log.step.deadline = Tick + LongStep + 300

\* C24: a frame that finds click_to_start at or past the deadline with the
\* click of the current step disabled leaves the state in move, starts no
\* thread and leaves the click token as it found it.
C24_SkipWithoutClick ==
    (/\ C23_WalkBlockRan
     /\ frame_log.from = "click_to_start"
     /\ frame_log.step.at >= frame_log.step.deadline
     /\ ~current_step_click_enabled)
       => /\ auto_walk_state = "move"
          /\ frame_log.walk_click = "none"
          /\ frame_log.sched = "none"
          /\ ~frame_log.walk_tasks /\ ~frame_log.sched_tasks
          /\ frame_log.step.lock_after = frame_log.step.lock

\* the skip happened, in the second step of the run
C24_Witness ==
    /\ C23_WalkBlockRan
    /\ frame_log.from = "click_to_start" /\ auto_walk_state = "move"
    /\ ~current_step_click_enabled
    /\ frame_log.step.at >= frame_log.step.deadline
    /\ frame_log.step.deadline > Tick + LongStep + 300
    /\ ~frame_log.step.lock_after

\* the last frame released the colour lock
C25_Released == frame_log.locked_before /\ ~is_color_locked

\* C25 (as amended): a frame that releases the lock clears the locked flag,
\* the mean HSV, the hex colour and the smoothed zone position; while the lock
\* is not held the smoothed position is unset, so the frame made no click
\* decision and no scheduler click; a frame that starts without the lock does
\* not match on a locked colour, and the lock comes back only in a frame that
\* accepts a contour.
C25_ReleaseClears ==
    /\ C25_Released => /\ locked_color_hsv = NoColor
                       /\ locked_color_hex = NoColor
                       /\ smoothed_zone_x = None
    /\ ~is_color_locked => /\ smoothed_zone_x = None
                           /\ ~frame_log.evaluated
                           /\ frame_log.sched = "none"
                           /\ ~frame_log.sched_tasks
    /\ (frame_log.from # "none" /\ ~frame_log.locked_before)
          => frame_log.mask # "range"
    /\ (~frame_log.locked_before /\ is_color_locked) => misses = 0

\* the lock is released after the scheduler had clicked on this zone
C25_Witness ==
    /\ C25_Released
    /\ last_sched_click # None
    /\ smoothed_zone_x = None
    /\ running

\* C25 as stated: the release clears the smoothed width too
C25_Original ==
    C25_Released => (smoothed_zone_x = None /\ smoothed_zone_w = None)

\* C26: a frame that accepts a candidate while the smoothed position is unset
\* leaves the smoothed position and width equal to the candidate's, whatever
\* the smoothing factor and whatever width was left from before the release.
C26_SnapOnFirst ==
    (frame_log.zone.raw # NoZone /\ frame_log.zone.x_before = None)
        => /\ smoothed_zone_x = frame_log.zone.raw.x
           /\ smoothed_zone_w = frame_log.zone.raw.w

\* the first candidate after a release, with smoothing factor 0.5 and a
\* different width left from the zone tracked before
C26_Witness ==
    /\ frame_log.zone.raw # NoZone /\ frame_log.zone.x_before = None
    /\ frame_log.zone.alpha = 500
    /\ frame_log.zone.w_before # None
    /\ frame_log.zone.w_before # frame_log.zone.raw.w
    /\ smoothed_zone_w = frame_log.zone.raw.w

\* C27: in a frame whose full-frame scan failed, the velocity sample is what
\* the scan of the bottom of the frame returned, and whatever that is, no
\* exclusion band is cut, the target is not engaged, no click decision and no
\* scheduler click is made, and the published flag says the line was not
\* detected.
C27_FallbackOnlyForVelocity ==
    (frame_log.line.seen /\ frame_log.line.full_scan = -1)
        => /\ frame_log.line.sample = frame_log.line.bottom_scan
           /\ ~frame_log.line.band
           /\ ~target_engaged
           /\ ~frame_log.evaluated
           /\ frame_log.sched = "none" /\ ~frame_log.sched_tasks
           /\ ~frame_log.line.detected

\* the bottom scan found the line on the sweet spot, in a frame after the
\* scheduler had clicked on an engaged target
C27_Witness ==
    /\ frame_log.line.seen /\ frame_log.line.full_scan = -1
    /\ frame_log.line.bottom_scan = 100
    /\ frame_log.line.sample = 100
    /\ last_sched_click # None
    /\ running /\ click_lock = FALSE

\* a valid 6-digit hex colour: an optional "#", then exactly six hexadecimal
\* digits
C28_ValidHex(str) ==
    /\ Len(StripHash(str)) = 6
    /\ \A i \in 1..6 : StripHash(str)[i] \in HexDigits

\* C28: a frame that starts unlocked produces its mask by the colour picker
\* if that is enabled and the picked colour is a valid 6-digit hex colour; by
\* the saturation threshold, with a logged warning, if the colour picker is
\* enabled and the colour is invalid or empty; else by Otsu (adaptive or
\* fixed area) if Otsu is enabled; else by the saturation threshold.
C28_StrategyOrder ==
    (frame_log.detect.seen /\ ~frame_log.locked_before) =>
        IF frame_log.detect.use_color_picker
        THEN IF C28_ValidHex(frame_log.detect.picked_color)
             THEN frame_log.mask = "color_picker"
             ELSE /\ frame_log.mask \in { "saturation_fallback",
                                          "saturation_no_color" }
                  /\ frame_log.detect.warned
        ELSE IF frame_log.detect.use_otsu
        THEN frame_log.mask = IF frame_log.detect.adaptive
                              THEN "otsu_adaptive" ELSE "otsu_fixed"
        ELSE frame_log.mask = "saturation"

\* C29: a step that starts the bot (running goes from false to true) leaves
\* the auto-walk state machine in move, with retry count 0, no pending sell
\* and no disengagement timer.
C29_FreshStart ==
    [][(~running /\ running')
          => /\ auto_walk_state' = "move"
             /\ click_retry_count' = 0
             /\ ~pending_auto_sell'
             /\ target_disengaged_time' = 0]_vars

\* C30: a frame processed while the bot is stopped neither increases
\* dig_count nor changes the auto-walk state, and dig_count grows only by one
\* per completed dig.
C30_NoDigWhileStopped ==
    /\ (frame_log.from # "none" /\ ~frame_log.run_walk)
          => /\ frame_log.dig_inc = 0
             /\ auto_walk_state = frame_log.from
    /\ frame_log.dig_inc = (IF frame_log.dug THEN 1 ELSE 0)


\* C31: the click a frame dispatches in click_to_start is dispatched with
\* delay 0, whatever delay the click scheduler computed in earlier frames.
C31_StartClickUndelayed ==
    frame_log.walk_click = "start" => frame_log.walk_delay = 0

\* C32: a frame of wait_for_target that increments the retry counter (the
\* wait window expired and a retry was left) dispatches one retry click, also
\* when the click token is held when the window expires.
C32_RetryHasClick ==
    (frame_log.expired /\ ~frame_log.gave_up)
        => /\ frame_log.walk_click = "retry"
           /\ frame_log.walk_delay = 0
           /\ ~frame_log.blocked

\* C33: the click token is released only by the end of the one click task
\* that holds it: every step that frees the token is the end of the only
\* click task in flight, and every click task that ends finds the token held.
C33_ReleasedByOwner ==
    [][/\ (click_lock /\ ~click_lock')
            => (delayed_clicks = 1 /\ delayed_clicks' = 0)
       /\ (delayed_clicks' < delayed_clicks) => click_lock]_vars

\* C34: a frame in which the scheduler decides to click (and sets the blind
\* deadline) starts a click task: a predictive click as a task under the
\* click token, a direct click as an instant-click thread without the token.
C34_DecisionStartsTask ==
    /\ frame_log.sched # "none" => frame_log.sched_task # "none"
    /\ frame_log.sched = "predictive" => frame_log.sched_task = "token"
    /\ frame_log.sched = "direct" => frame_log.sched_task # "token"

\* C35: with auto-walk enabled, a frame in which the click scheduler
\* dispatches a click finds the state machine in digging (after its own step),
\* the target engaged, the line detected and no sell in progress; in move,
\* click_to_start and wait_for_target the scheduler is not allowed to click.
C35_ClicksOnlyWhenDigging ==
    (frame_log.guard.seen /\ auto_walk_enabled)
        => /\ (frame_log.sched # "none" \/ frame_log.evaluated)
                => frame_log.guard.allowed
           /\ frame_log.guard.allowed
                => /\ frame_log.guard.state = "digging"
                   /\ frame_log.guard.engaged
                   /\ frame_log.guard.line_pos # -1
                   /\ ~frame_log.guard.selling

\* the scheduler clicked in the frame that entered digging, and a later frame
\* in digging with the target engaged and the line on the sweet spot
\* dispatched nothing because a sell was in progress
C35_Witness ==
    /\ auto_walk_enabled
    /\ frame_log.guard.seen
    /\ frame_log.guard.state = "digging"
    /\ frame_log.guard.engaged
    /\ frame_log.guard.line_pos = 100
    /\ frame_log.guard.selling
    /\ frame_log.sched = "none"
    /\ last_sched_click # None

\* C36: whenever the pending-sell flag is set the dig-completion time is
\* nonzero (so the sell of the move state or the stale-pending timeout can
\* clear it), and a frame that issues a walk step does so with no sell
\* pending: the flag was clear, or the timeout cleared it in that frame.
C36_PendingHasTime ==
    /\ pending_auto_sell => dig_completed_time > 0
    /\ frame_log.walk_started
          => /\ ~pending_auto_sell
             /\ frame_log.pending_before => frame_log.pending_cleared = "timeout"
    /\ frame_log.pending_cleared \in {"sold", "skipped"}
          => ~frame_log.walk_started

\* a frame in move, with the bot running and the walk thread idle, issued no
\* walk step because a sell was pending and not yet due
C36_Witness ==
    /\ pending_auto_sell /\ frame_log.pending_before
    /\ frame_log.from = "move" /\ auto_walk_state = "move"
    /\ frame_log.run_walk /\ ~walk_alive /\ sell_thread = "none"
    /\ ~frame_log.walk_started
    /\ clock - dig_completed_time < post_dig_delay

\* C37: with a webhook set and a positive interval, the frame in which a
\* completed dig takes dig_count to a positive multiple of the interval sends
\* one milestone notification, in every run (also after a stop and restart),
\* and no other frame sends one.
C37_MilestoneEveryRun ==
    frame_log.milestone.seen
        => (frame_log.milestone.sent
              <=> /\ frame_log.dug
                  /\ frame_log.milestone.interval > 0
                  /\ frame_log.milestone.count > 0
                  /\ frame_log.milestone.count
                        % frame_log.milestone.interval = 0)

\* C38: once on_closing has run, the main loop and the hotkey listener
\* terminate (also from inside the sell wait), then the final cleanup runs;
\* the cleanup never runs while one of the two threads is alive, and no frame
\* is processed after it.
C38_ShutdownCompletes ==
    /\ [](shutdown = "cleaned" => (~loop_alive /\ ~hotkey_alive))
    /\ [](shutdown # "none" => ~preview_active)
    /\ (shutdown = "closing" ~> (~loop_alive /\ ~hotkey_alive))
    /\ ((shutdown = "closing" /\ loop_wait) ~> ~loop_alive)
    /\ (shutdown = "closing" ~> shutdown = "cleaned")

\* the window was closed while the loop waited for a sell in progress; the
\* loop has left the wait and ended, the hotkey listener has ended and the
\* cleanup has run
C38_Witness ==
    /\ shutdown = "cleaned"
    /\ ~loop_alive /\ ~hotkey_alive
    /\ frame_log.waits /\ is_selling
    /\ clock - wait_start_time < auto_sell_max_wait_time

\* C39: after every call of check_line_movement (every frame) the list of
\* line positions holds at most max(int(30 * fps / 120), 10) samples for the
\* target fps of that frame, also after the fps was lowered between frames.
C39_HistoryWithinWindow ==
    [][(line_seen' # line_seen /\ line_seen' # << >>)
          => Len(line_moving_history') <= LineMovementCheckFrames(game_fps')]_vars

=============================================================================
